---- MODULE Spec2Model ----
(***************************************************************************)
(* A model of the card valuation engine of cardvault-ai                    *)
(* (src/card_value_engine.py): MultiplierEngine, ConfidenceCalculator,     *)
(* MockDataFactory, CardValueEstimator and AccuracyValidator, and of the   *)
(* RateLimiter of src/ebay_integration.py.                                 *)
(*                                                                         *)
(* Numbers.  The engine computes in binary floating point.  Money is       *)
(* counted in cents, multipliers in thousandths, dates in days, and every  *)
(* quotient is an exact fraction of two naturals.  TLC's integers are 32   *)
(* bits wide, so naturals that can exceed that are kept as sequences of    *)
(* base-10000 limbs, least significant first ("Big").  The multipliers,    *)
(* the confidence factors and the coefficient of variation are computed    *)
(* exactly.  _weighted_value, _value_range, the change_pct of              *)
(* _market_trends and AccuracyValidator, whose results are compared with   *)
(* their inputs or with thresholds those inputs can hit, are computed in   *)
(* floats, operation by operation (Double).  round(x, k) is modelled as    *)
(* rounding the exact value of x to the nearest multiple of 10^-k, ties to *)
(* the even neighbour.                                                     *)
(*                                                                         *)
(* Text.  A str is a sequence of one-character strings, so that lower(),   *)
(* substring tests and the serial-number regex are computed, not assumed.  *)
(* An Optional value is a record [some, val].                              *)
(***************************************************************************)
EXTENDS Integers, Sequences, FiniteSets, TLC

VARIABLES
    now,          \* the wall clock, in days (datetime.now())
    card,         \* the CardAttributes under study
    market_data,  \* the market_data argument: Optional list of MarketDataPoint
    use_mock,     \* the use_mock argument
    base_value,   \* the base_value argument of apply_all, in cents
    first,        \* what the first estimate_value call returned
    last,         \* what the latest estimate_value call returned
    applied,      \* what the latest apply_all call returned
    confidence,   \* what the latest calculate call returned
    weighted,     \* what the latest _weighted_value call returned
    adjusted_value, \* the value argument of _value_range and _grading_recommendation, in cents
    ranged,       \* what the latest _value_range call returned
    grading,      \* what the latest _grading_recommendation call returned
    trends,       \* what the latest _market_trends call returned
    history,      \* AccuracyValidator.history
    validations,  \* what the validate calls returned, in call order
    report,       \* what the latest overall_accuracy call returned
    limiter,      \* a RateLimiter: max_calls, window and _timestamps
    clock,        \* time.time()
    grants,       \* the clock readings of the acquire calls that returned True
    acquired,     \* what the latest acquire call returned
    remaining_read, \* what the latest read of remaining returned
    threads       \* the concurrent estimate_value calls

\* the variables of estimate_value, apply_all, calculate and generate
estimator_vars == <<now, card, market_data, use_mock, base_value, first, last, applied,
                    confidence>>
\* the variables of _value_range and _grading_recommendation
value_vars == <<adjusted_value, ranged, grading>>

\* the variables of AccuracyValidator
validator_vars == <<history, validations, report>>
\* the variables of RateLimiter
limiter_vars == <<limiter, clock, grants, acquired, remaining_read>>

\* the variables of the operations that are studied on their own
others == <<weighted, value_vars, trends, validator_vars, limiter_vars, threads>>

vars == <<now, card, market_data, use_mock, base_value, first, last, applied, confidence,
          others>>

-----------------------------------------------------------------------------
(* Naturals of any size: sequences of limbs in base 10000, least            *)
(* significant limb first, no leading zero limb; <<>> is 0.                 *)

RECURSIVE Big(_)
Big(n) == IF n = 0 THEN <<>> ELSE <<n % 10000>> \o Big(n \div 10000)

RECURSIVE BigTrim(_)
BigTrim(a) ==
    IF a = <<>> THEN <<>>
    ELSE IF a[Len(a)] = 0 THEN BigTrim(SubSeq(a, 1, Len(a) - 1))
    ELSE a

RECURSIVE BigAddC(_, _, _)
BigAddC(a, b, c) ==
    IF a = <<>> /\ b = <<>> THEN (IF c = 0 THEN <<>> ELSE <<c>>)
    ELSE LET x == IF a = <<>> THEN 0 ELSE Head(a)
             y == IF b = <<>> THEN 0 ELSE Head(b)
             s == x + y + c
         IN  <<s % 10000>> \o BigAddC(IF a = <<>> THEN <<>> ELSE Tail(a),
                                      IF b = <<>> THEN <<>> ELSE Tail(b),
                                      s \div 10000)

BigAdd(a, b) == BigAddC(a, b, 0)

\* a * k + c for a limb k and a carry c
RECURSIVE BigScale(_, _, _)
BigScale(a, k, c) ==
    IF a = <<>> THEN Big(c)
    ELSE LET p == Head(a) * k + c
         IN  <<p % 10000>> \o BigScale(Tail(a), k, p \div 10000)

RECURSIVE BigMulR(_, _)
BigMulR(a, b) ==
    IF b = <<>> THEN <<>>
    ELSE BigAdd(BigScale(a, Head(b), 0), <<0>> \o BigMulR(a, Tail(b)))

BigMul(a, b) == IF a = <<>> \/ b = <<>> THEN <<>> ELSE BigTrim(BigMulR(a, b))

\* -1, 0, 1 as a < b, a = b, a > b
RECURSIVE BigCmp(_, _)
BigCmp(a, b) ==
    IF Len(a) # Len(b) THEN (IF Len(a) < Len(b) THEN -1 ELSE 1)
    ELSE IF a = <<>> THEN 0
    ELSE LET n == Len(a)
         IN  IF a[n] # b[n] THEN (IF a[n] < b[n] THEN -1 ELSE 1)
             ELSE BigCmp(SubSeq(a, 1, n - 1), SubSeq(b, 1, n - 1))

BigLeq(a, b) == BigCmp(a, b) <= 0
BigLt(a, b) == BigCmp(a, b) < 0

\* a - b, for a >= b
RECURSIVE BigSubB(_, _, _)
BigSubB(a, b, c) ==
    IF a = <<>> THEN <<>>
    ELSE LET y == IF b = <<>> THEN 0 ELSE Head(b)
             d == Head(a) - y - c
         IN  <<IF d < 0 THEN d + 10000 ELSE d>>
                 \o BigSubB(Tail(a), IF b = <<>> THEN <<>> ELSE Tail(b),
                            IF d < 0 THEN 1 ELSE 0)

BigSub(a, b) == BigTrim(BigSubB(a, b, 0))

\* the value of a Big that fits a machine integer (below 2 * 10^9)
BigToInt(a) ==
    IF a = <<>> THEN 0
    ELSE IF Len(a) = 1 THEN a[1]
    ELSE IF Len(a) = 2 THEN a[1] + 10000 * a[2]
    ELSE a[1] + 10000 * a[2] + 100000000 * a[3]

\* a divided by a machine integer k, 0 < k <= 200000: [q, r]
RECURSIVE BigShortDiv(_, _)
BigShortDiv(a, k) ==
    IF a = <<>> THEN [q |-> <<>>, r |-> 0]
    ELSE LET hi  == BigShortDiv(Tail(a), k)
             cur == hi.r * 10000 + Head(a)
         IN  [q |-> <<cur \div k>> \o hi.q, r |-> cur % k]

\* Long division.  x times the power of ten that gives the divisor d two
\* limbs or more and a top limb of 1000 or more
TopFactor(top) == IF top < 10 THEN 1000 ELSE IF top < 100 THEN 100 ELSE IF top < 1000 THEN 10 ELSE 1

DivScale(x, d) ==
    IF x = <<>> THEN <<>>
    ELSE BigScale(IF Len(d) = 1 THEN <<0>> \o x ELSE x, TopFactor(d[Len(d)]), 0)

Limb(a, i) == IF 1 <= i /\ i <= Len(a) THEN a[i] ELSE 0

\* floor(r / d) or one or two less, for r < 10000 d, from the leading five
\* digits of d
QuotLow(r, d) ==
    (Limb(r, Len(d) + 1) * 100000 + Limb(r, Len(d)) * 10 + Limb(r, Len(d) - 1) \div 1000)
        \div (d[Len(d)] * 10 + d[Len(d) - 1] \div 1000 + 1)

\* floor(r / d), for lo <= floor(r / d) <= lo + 2
QuotLimb(r, d, lo) == lo + Cardinality({j \in 1..2 : BigLeq(BigScale(d, lo + j, 0), r)})

LongDivStep(cur, q, d, limb) == [q |-> <<limb>> \o q, r |-> BigSub(cur, BigScale(d, limb, 0))]

LongDivNext(head, hi, d) ==
    CHOOSE x \in {LongDivStep(cur, hi.q, d, QuotLimb(cur, d, QuotLow(cur, d))) :
                      cur \in {BigTrim(<<head>> \o hi.r)}} : TRUE

\* the quotient q and the remainder r of the limbs i.. of n by d
RECURSIVE LongDivAt(_, _, _)
LongDivAt(n, d, i) ==
    IF i > Len(n) - Len(d) + 1 THEN [q |-> <<>>, r |-> SubSeq(n, i, Len(n))]
    ELSE CHOOSE x \in {LongDivNext(n[i], hi, d) : hi \in {LongDivAt(n, d, i + 1)}} : TRUE

\* floor(n / d) as a machine integer, for d > 0 and a quotient below 10^9
BigDiv(n, d) == BigToInt(BigTrim(LongDivAt(DivScale(n, d), DivScale(d, d), 1).q))

-----------------------------------------------------------------------------
(* Exact non-negative fractions [n, d] of Bigs, d > 0.                      *)

Frac(a, b) == [n |-> Big(a), d |-> Big(b)]
QMul(p, q) == [n |-> BigMul(p.n, q.n), d |-> BigMul(p.d, q.d)]
QLeq(p, q) == BigLeq(BigMul(p.n, q.d), BigMul(q.n, p.d))
QLt(p, q) == BigLt(BigMul(p.n, q.d), BigMul(q.n, p.d))
QMin(p, q) == IF QLeq(p, q) THEN p ELSE q

\* round(): the integer nearest to the fraction q, a tie going to the even one
Round(q) ==
    LET fl   == BigDiv(q.n, q.d)
        rest == BigSub(q.n, BigMul(Big(fl), q.d))
        c    == BigCmp(BigScale(rest, 2, 0), q.d)
    IN  IF c < 0 THEN fl
        ELSE IF c > 0 THEN fl + 1
        ELSE IF fl % 2 = 0 THEN fl ELSE fl + 1

QAdd(p, q) == [n |-> BigAdd(BigMul(p.n, q.d), BigMul(q.n, p.d)), d |-> BigMul(p.d, q.d)]
\* p - q, for q <= p
QSub(p, q) == [n |-> BigSub(BigMul(p.n, q.d), BigMul(q.n, p.d)), d |-> BigMul(p.d, q.d)]
QDiv(p, q) == [n |-> BigMul(p.n, q.d), d |-> BigMul(p.d, q.n)]
QEq(p, q) == BigMul(p.n, q.d) = BigMul(q.n, p.d)

-----------------------------------------------------------------------------
(* Python floats: IEEE 754 binary64, round to nearest, ties to even.  A     *)
(* float is kept as the exact fraction it stands for, and Double(q) is the  *)
(* float nearest to the fraction q: the result of a literal, of a           *)
(* conversion or of one arithmetic operation whose exact result is q.  The  *)
(* values met here are far from the overflow and subnormal ranges.          *)

RECURSIVE Pow2(_)
Pow2(k) == IF k < 13 THEN <<2^k>> ELSE BigScale(Pow2(k - 13), 8192, 0)

\* n / d as (n' / d') * 2^e with d' <= n' < 2 d', in jumps of s, then s / 4
\* binary places
RECURSIVE Normal(_, _, _, _)
Normal(n, d, e, s) ==
    IF BigLt(n, d)
    THEN IF s = 1 \/ BigLeq(BigScale(n, 2^s, 0), d)
         THEN Normal(BigScale(n, 2^s, 0), d, e - s, s)
         ELSE Normal(n, d, e, s \div 4)
    ELSE IF BigLeq(BigScale(d, 2, 0), n)
    THEN IF s = 1 \/ BigLeq(BigScale(d, 2^s, 0), n)
         THEN Normal(n, BigScale(d, 2^s, 0), e + s, s)
         ELSE Normal(n, d, e, s \div 4)
    ELSE [n |-> n, d |-> d, e |-> e]

\* the 53 leading bits m of n / d, for d <= n < 2 d, and the remainder r on the
\* scale of d: n * 2^52 = m * d + r, r < d
MantissaOf(qr, d) == [m |-> BigTrim(qr.q), r |-> qr.r, d |-> d]

Mantissa(n, d) ==
    MantissaOf(LongDivAt(DivScale(BigMul(n, Pow2(52)), d), DivScale(d, d), 1), DivScale(d, d))

\* the 53-bit significand, rounded to nearest, a tie going to the even one
Nearest(mr) ==
    IF BigCmp(BigScale(mr.r, 2, 0), mr.d) > 0
       \/ (BigCmp(BigScale(mr.r, 2, 0), mr.d) = 0 /\ mr.m[1] % 2 = 1)
    THEN BigAdd(mr.m, <<1>>) ELSE mr.m

\* m * 2^k
Scaled(m, k) ==
    IF k >= 0 THEN [n |-> BigMul(m, Pow2(k)), d |-> <<1>>] ELSE [n |-> m, d |-> Pow2(0 - k)]

DoubleOf(nm) == Scaled(Nearest(Mantissa(nm.n, nm.d)), nm.e - 52)

\* q is evaluated once, before it is rounded
Double(q) ==
    CHOOSE r \in {IF v.n = <<>> THEN [n |-> <<>>, d |-> <<1>>]
                  ELSE DoubleOf(Normal(v.n, v.d, 0, 16)) : v \in {q}} : TRUE

\* x + y, x * y and x / y of two floats: the operands are evaluated first
FAdd(x, y) == CHOOSE r \in {Double(QAdd(u, v)) : u \in {x}, v \in {y}} : TRUE
\* x - y, for y <= x
FSub(x, y) == CHOOSE r \in {Double(QSub(u, v)) : u \in {x}, v \in {y}} : TRUE
FMul(x, y) == CHOOSE r \in {Double(QMul(u, v)) : u \in {x}, v \in {y}} : TRUE
FDiv(x, y) == CHOOSE r \in {Double(QDiv(u, v)) : u \in {x}, v \in {y}} : TRUE

-----------------------------------------------------------------------------
(* Text: sequences of one-character strings.                                *)

Digits == <<"0", "1", "2", "3", "4", "5", "6", "7", "8", "9">>
IsDigit(c) == \E i \in 1..10 : Digits[i] = c
DigitVal(c) == (CHOOSE i \in 1..10 : Digits[i] = c) - 1

Upper == <<"A", "B", "C", "D", "E", "F", "G", "H", "I", "J", "K", "L", "M",
           "N", "O", "P", "Q", "R", "S", "T", "U", "V", "W", "X", "Y", "Z">>
LowerOf == <<"a", "b", "c", "d", "e", "f", "g", "h", "i", "j", "k", "l", "m",
             "n", "o", "p", "q", "r", "s", "t", "u", "v", "w", "x", "y", "z">>

\* str.lower()
Lower(text) ==
    [i \in 1..Len(text) |->
        IF \E k \in 1..26 : Upper[k] = text[i]
        THEN LowerOf[CHOOSE k \in 1..26 : Upper[k] = text[i]]
        ELSE text[i]]

\* sub in text
Contains(sub, text) ==
    \E i \in 0..(Len(text) - Len(sub)) : SubSeq(text, i + 1, i + Len(sub)) = sub

\* int() of a run of decimal digits
RECURSIVE ParseInt(_)
ParseInt(ds) ==
    IF ds = <<>> THEN 0
    ELSE 10 * ParseInt(SubSeq(ds, 1, Len(ds) - 1)) + DigitVal(ds[Len(ds)])

\* str() of a natural number
RECURSIVE Str(_)
Str(n) == IF n < 10 THEN <<Digits[n + 1]>> ELSE Str(n \div 10) \o <<Digits[(n % 10) + 1]>>

None == [some |-> FALSE, val |-> <<>>]
Some(v) == [some |-> TRUE, val |-> v]
\* the truth value Python gives an Optional[str]: set and not empty
Truthy(o) == o.some /\ o.val # <<>>

NoneNum == [some |-> FALSE, val |-> 0]

-----------------------------------------------------------------------------
(* Data model.  A CardAttributes is a record of the fields the engine      *)
(* reads: player, year, sport, parallel, serial_number, autograph, rookie, *)
(* condition, graded, grade_value (in thousandths of a grade point).       *)
(* set_name, card_number, insert and grading_company are never read.       *)
(* A MarketDataPoint is [source, value (cents), date (day), sample_size,   *)
(* condition, url, notes].                                                 *)

CardCondition ==
    {"gem_mint", "mint", "nm_plus", "near_mint", "excellent", "very_good", "good", "raw"}

Sport == {"basketball", "football", "baseball", "soccer", "hockey", "other"}

-----------------------------------------------------------------------------
(* MultiplierEngine.  Multipliers are in thousandths.                       *)

MAX_COMPOUND_MULTIPLIER == 25000

CONDITION_MULTIPLIERS ==
    [c \in CardCondition |->
        CASE c = "gem_mint"  -> 3500
          [] c = "mint"      -> 2000
          [] c = "nm_plus"   -> 1500
          [] c = "near_mint" -> 1200
          [] c = "excellent" -> 800
          [] c = "very_good" -> 600
          [] c = "good"      -> 400
          [] c = "raw"       -> 1000]

\* <<min_grade, max_grade, multiplier>>, in the order of the dict
GRADE_MULTIPLIERS ==
    << <<9500, 10000, 3000>>,
       <<9000, 9490, 2000>>,
       <<8000, 8990, 1500>>,
       <<7000, 7990, 1200>>,
       <<0, 6990, 800>> >>

\* <<key, multiplier>>, in the order of the dict
PARALLEL_MULTIPLIERS == <<
    <<<<"s", "u", "p", "e", "r", "f", "r", "a", "c", "t", "o", "r">>, 50000>>,
    <<<<"1", "/", "1">>, 50000>>,
    <<<<"g", "o", "l", "d">>, 8000>>,
    <<<<"o", "r", "a", "n", "g", "e">>, 5000>>,
    <<<<"b", "l", "a", "c", "k">>, 4000>>,
    <<<<"r", "e", "d">>, 3000>>,
    <<<<"b", "l", "u", "e">>, 2500>>,
    <<<<"p", "u", "r", "p", "l", "e">>, 2000>>,
    <<<<"g", "r", "e", "e", "n">>, 1800>>,
    <<<<"c", "r", "a", "c", "k", "e", "d", " ", "i", "c", "e">>, 1800>>,
    <<<<"s", "h", "i", "m", "m", "e", "r">>, 1700>>,
    <<<<"x", "f", "r", "a", "c", "t", "o", "r">>, 1600>>,
    <<<<"m", "o", "j", "o">>, 1600>>,
    <<<<"s", "i", "l", "v", "e", "r">>, 1500>>,
    <<<<"h", "o", "l", "o">>, 1400>>,
    <<<<"p", "r", "i", "z", "m">>, 1300>>,
    <<<<"r", "e", "f", "r", "a", "c", "t", "o", "r">>, 1300>>
>>

SPORT_FACTORS ==
    [s \in Sport |->
        CASE s = "basketball" -> 1150
          [] s = "football"   -> 1100
          [] s = "baseball"   -> 950
          [] s = "soccer"     -> 1200
          [] s = "hockey"     -> 900
          [] s = "other"      -> 1000]

ERA_MULTIPLIERS ==
    [e \in {"vintage", "junk_wax", "modern", "ultra_modern"} |->
        CASE e = "vintage"      -> 2500
          [] e = "junk_wax"     -> 300
          [] e = "modern"       -> 1000
          [] e = "ultra_modern" -> 1200]

\* <<max_print_run, multiplier>>
SCARCITY_TABLE ==
    << <<1, 50000>>, <<5, 10000>>, <<10, 5000>>, <<25, 3500>>, <<50, 2500>>,
       <<99, 2000>>, <<199, 1500>>, <<499, 1300>>, <<999, 1100>> >>

grade_multiplier(grade) ==
    LET hits == {i \in 1..Len(GRADE_MULTIPLIERS) :
                    GRADE_MULTIPLIERS[i][1] <= grade /\ grade <= GRADE_MULTIPLIERS[i][2]}
    IN  IF hits = {} THEN 1000
        ELSE GRADE_MULTIPLIERS[CHOOSE i \in hits : \A j \in hits : i <= j][3]

\* the end of the run of digits that starts at position s of text
RECURSIVE RunEnd(_, _)
RunEnd(text, s) ==
    IF s < Len(text) /\ IsDigit(text[s + 1]) THEN RunEnd(text, s + 1) ELSE s

\* re.search(r'(\d+)/(\d+)', serial): the leftmost match, each group greedy.
\* [found, current, total]
SerialMatch(text) ==
    LET starts == {s \in 1..Len(text) :
                      /\ IsDigit(text[s])
                      /\ RunEnd(text, s) + 2 <= Len(text)
                      /\ text[RunEnd(text, s) + 1] = "/"
                      /\ IsDigit(text[RunEnd(text, s) + 2])}
    IN  IF starts = {} THEN [found |-> FALSE, current |-> 0, total |-> 0]
        ELSE LET s == CHOOSE x \in starts : \A y \in starts : x <= y
                 e == RunEnd(text, s)
             IN  [found   |-> TRUE,
                  current |-> ParseInt(SubSeq(text, s, e)),
                  total   |-> ParseInt(SubSeq(text, e + 2, RunEnd(text, e + 2)))]

\* a variant of jersey_numbers without any lucky number
jersey_numbers_none == {}

jersey_numbers == {23, 24, 8, 3, 33, 32, 34, 7, 10, 9, 12, 15, 30, 45}

scarcity_multiplier(serial) ==
    IF ~Truthy(serial) THEN 1000
    ELSE LET m == SerialMatch(serial.val)
         IN  IF ~m.found THEN 1000
             ELSE LET rows == {i \in 1..Len(SCARCITY_TABLE) : m.total <= SCARCITY_TABLE[i][1]}
                      base == IF rows = {} THEN 1000
                              ELSE SCARCITY_TABLE[CHOOSE i \in rows : \A j \in rows : i <= j][2]
                      lucky == IF m.current \in jersey_numbers /\ m.current <= m.total
                               THEN (base * 12) \div 10 ELSE base
                  IN  IF m.current = 1 THEN (lucky * 13) \div 10
                      ELSE IF m.current = m.total THEN (lucky * 11) \div 10
                      ELSE lucky

\* a variant of parallel_multiplier that gives 1.0 to a text without any key
parallel_multiplier_neutral(parallel) ==
    IF ~Truthy(parallel) THEN 1000
    ELSE LET hits == {i \in 1..Len(PARALLEL_MULTIPLIERS) :
                         Contains(PARALLEL_MULTIPLIERS[i][1], Lower(parallel.val))}
         IN  IF hits = {} THEN 1000
             ELSE PARALLEL_MULTIPLIERS[CHOOSE i \in hits : \A j \in hits : i <= j][2]

\* a variant of parallel_multiplier in which the last matching key wins
parallel_multiplier_last(parallel) ==
    IF ~Truthy(parallel) THEN 1000
    ELSE LET hits == {i \in 1..Len(PARALLEL_MULTIPLIERS) :
                         Contains(PARALLEL_MULTIPLIERS[i][1], Lower(parallel.val))}
         IN  IF hits = {} THEN 1200
             ELSE PARALLEL_MULTIPLIERS[CHOOSE i \in hits : \A j \in hits : j <= i][2]

parallel_multiplier(parallel) ==
    IF ~Truthy(parallel) THEN 1000
    ELSE LET parallel_lower == Lower(parallel.val)
             hits == {i \in 1..Len(PARALLEL_MULTIPLIERS) :
                         Contains(PARALLEL_MULTIPLIERS[i][1], parallel_lower)}
         IN  IF hits = {} THEN 1200
             ELSE PARALLEL_MULTIPLIERS[CHOOSE i \in hits : \A j \in hits : i <= j][2]

\* a variant of determine_era that counts 1980..1985 as modern
determine_era_modern_from_1980(year) ==
    IF year < 1980 THEN "vintage"
    ELSE IF 1986 <= year /\ year <= 1994 THEN "junk_wax"
    ELSE IF 1980 <= year /\ year <= 2015 THEN "modern"
    ELSE "ultra_modern"

determine_era(year) ==
    IF year < 1980 THEN "vintage"
    ELSE IF 1986 <= year /\ year <= 1994 THEN "junk_wax"
    ELSE IF 1995 <= year /\ year <= 2015 THEN "modern"
    ELSE "ultra_modern"

\* a variant of raw_compound whose first factor is always taken from the
\* condition table
raw_compound_by_condition(c) ==
    QMul(Frac(CONDITION_MULTIPLIERS[c.condition], 1000),
    QMul(Frac(IF c.rookie THEN 1500 ELSE 1000, 1000),
    QMul(Frac(IF c.autograph THEN 2500 ELSE 1000, 1000),
    QMul(Frac(scarcity_multiplier(c.serial_number), 1000),
    QMul(Frac(parallel_multiplier(c.parallel), 1000),
    QMul(Frac(ERA_MULTIPLIERS[determine_era(c.year)], 1000),
         Frac(SPORT_FACTORS[c.sport], 1000)))))))

\* the product of the seven factors, as an exact fraction
raw_compound(c) ==
    LET grade_mult == IF c.graded /\ c.grade_value.some
                      THEN grade_multiplier(c.grade_value.val)
                      ELSE CONDITION_MULTIPLIERS[c.condition]
        rookie_mult == IF c.rookie THEN 1500 ELSE 1000
        auto_mult == IF c.autograph THEN 2500 ELSE 1000
    IN  QMul(Frac(grade_mult, 1000),
        QMul(Frac(rookie_mult, 1000),
        QMul(Frac(auto_mult, 1000),
        QMul(Frac(scarcity_multiplier(c.serial_number), 1000),
        QMul(Frac(parallel_multiplier(c.parallel), 1000),
        QMul(Frac(ERA_MULTIPLIERS[determine_era(c.year)], 1000),
             Frac(SPORT_FACTORS[c.sport], 1000)))))))

\* a variant of Capped that leaves the cap out
Capped_none(raw) == raw

\* min(raw_compound, cls.MAX_COMPOUND_MULTIPLIER)
Capped(raw) == QMin(raw, Frac(MAX_COMPOUND_MULTIPLIER, 1000))

\* the factor entries of the breakdown: a factor other than the first and the
\* era is recorded when it applies (rookie, autograph) or differs from 1.0
factor_breakdown(c) ==
    LET graded_path == c.graded /\ c.grade_value.some
        mult(k) == CASE k = "grade"        -> grade_multiplier(c.grade_value.val)
                     [] k = "condition"    -> CONDITION_MULTIPLIERS[c.condition]
                     [] k = "rookie"       -> 1500
                     [] k = "autograph"    -> 2500
                     [] k = "scarcity"     -> scarcity_multiplier(c.serial_number)
                     [] k = "parallel"     -> parallel_multiplier(c.parallel)
                     [] k = "era"          -> ERA_MULTIPLIERS[determine_era(c.year)]
                     [] k = "sport_market" -> SPORT_FACTORS[c.sport]
        recorded(k) == CASE k = "grade"     -> graded_path
                         [] k = "condition" -> ~graded_path
                         [] k = "rookie"    -> c.rookie
                         [] k = "autograph" -> c.autograph
                         [] k = "era"       -> TRUE
                         [] OTHER           -> mult(k) # 1000
    IN  [k \in {x \in {"grade", "condition", "rookie", "autograph", "scarcity",
                       "parallel", "era", "sport_market"} : recorded(x)} |-> mult(k)]

\* the entries "_cap_applied", "_uncapped" and "_total" of the breakdown
cap_breakdown(raw, capped) ==
    IF QLt(capped, raw)
    THEN    ("_cap_applied" :> MAX_COMPOUND_MULTIPLIER)
         @@ ("_uncapped" :> 10 * Round(QMul(raw, Frac(100, 1))))
         @@ ("_total" :> 10 * Round(QMul(capped, Frac(100, 1))))
    ELSE "_total" :> 10 * Round(QMul(capped, Frac(100, 1)))

\* what apply_all returns, from the raw and the capped product
compound_result(base, c, raw, capped) ==
    [adjusted  |-> Round(QMul(base, capped)),
     breakdown |-> factor_breakdown(c) @@ cap_breakdown(raw, capped)]

\* apply_all(base_value, card), base_value a fraction of cents:
\* [adjusted (cents), breakdown (key -> thousandths)]
apply_all(base, c) ==
    LET raw == raw_compound(c) IN compound_result(base, c, raw, Capped(raw))

-----------------------------------------------------------------------------
(* Statistics over a list of values (cents).                                *)

RECURSIVE BigSum(_)
BigSum(vals) == IF vals = <<>> THEN <<>> ELSE BigAdd(Big(Head(vals)), BigSum(Tail(vals)))

RECURSIVE BigSumSq(_)
BigSumSq(vals) ==
    IF vals = <<>> THEN <<>>
    ELSE BigAdd(BigMul(Big(Head(vals)), Big(Head(vals))), BigSumSq(Tail(vals)))

\* sorted(vals)[k]: the k-th smallest value, k in 1..Len(vals)
KthSmallest(vals, k) ==
    CHOOSE v \in {vals[i] : i \in 1..Len(vals)} :
        /\ Cardinality({i \in 1..Len(vals) : vals[i] < v}) < k
        /\ k <= Cardinality({i \in 1..Len(vals) : vals[i] <= v})

(* statistics.stdev(vals) / statistics.mean(vals) is the square root of     *)
(* CvNum / CvDen, with S the sum, Q the sum of squares and n the length:    *)
(* stdev^2 = (n Q - S^2) / (n (n - 1)) and mean = S / n.                    *)
CvNum(vals) ==
    LET n == Len(vals)
    IN  BigScale(BigSub(BigScale(BigSumSq(vals), n, 0),
                        BigMul(BigSum(vals), BigSum(vals))), n, 0)

CvDen(vals) == BigScale(BigMul(BigSum(vals), BigSum(vals)), Len(vals) - 1, 0)

\* sqrt(num / den) <= p / q and sqrt(num / den) < p / q, for naturals p and q > 0
RootLeq(num, den, p, q) ==
    BigLeq(BigMul(num, BigMul(Big(q), Big(q))), BigMul(BigMul(Big(p), Big(p)), den))

RootLt(num, den, p, q) ==
    BigLt(BigMul(num, BigMul(Big(q), Big(q))), BigMul(BigMul(Big(p), Big(p)), den))

\* cv <= p / q
CvLeq(vals, p, q) == RootLeq(CvNum(vals), CvDen(vals), p, q)

\* the least k in lo..hi with num * 10^12 <= k^2 * den, that is cv <= k / 1000000
\* (hi is known to satisfy it); scaled is num * 10^12
RECURSIVE CvCeilIn(_, _, _, _)
CvCeilIn(scaled, den, lo, hi) ==
    IF lo = hi THEN lo
    ELSE LET mid == lo + (hi - lo) \div 2
         IN  IF BigLeq(scaled, BigMul(BigMul(Big(mid), Big(mid)), den))
             THEN CvCeilIn(scaled, den, lo, mid)
             ELSE CvCeilIn(scaled, den, mid + 1, hi)

Values(md) == [i \in 1..Len(md) |-> md[i].value]

-----------------------------------------------------------------------------
(* ConfidenceCalculator.  A factor is reported in millionths, rounded       *)
(* down; the score and the level are decided on the exact values.           *)

\* in hundredths
WEIGHTS ==
    [k \in {"source_diversity", "sample_size", "data_recency", "value_consistency",
            "card_specificity"} |->
        CASE k = "source_diversity"  -> 20
          [] k = "sample_size"       -> 25
          [] k = "data_recency"      -> 15
          [] k = "value_consistency" -> 25
          [] k = "card_specificity"  -> 15]

Min(a, b) == IF a <= b THEN a ELSE b
Max(a, b) == IF a >= b THEN a ELSE b

RECURSIVE SumSamples(_)
SumSamples(md) == IF md = <<>> THEN 0 ELSE Head(md).sample_size + SumSamples(Tail(md))

unique_sources(md) == Cardinality({md[i].source : i \in 1..Len(md)})

\* a variant of recent_points with a cutoff of 29 days
recent_points_29(md, t) == Cardinality({i \in 1..Len(md) : md[i].date > t - 29})

\* the number of points with dp.date > now - timedelta(days=30)
recent_points(md, t) == Cardinality({i \in 1..Len(md) : md[i].date > t - 30})

\* card_specificity before the cap, in hundredths
specificity(c) ==
    50 + (IF Truthy(c.serial_number) THEN 20 ELSE 0)
       + (IF Truthy(c.parallel) THEN 15 ELSE 0)
       + (IF c.graded THEN 15 ELSE 0)

\* value_consistency is the default 0.5 (no coefficient of variation is taken)
ConsistencyDefault(md) == ~(Len(md) > 1 /\ BigSum(Values(md)) # <<>>)

\* max(0.0, 1.0 - cv), in millionths rounded down
value_consistency(md) ==
    LET num == CvNum(Values(md))
        den == CvDen(Values(md))
    IN  IF ConsistencyDefault(md) THEN 500000
        ELSE IF ~RootLeq(num, den, 1, 1) THEN 0
        ELSE 1000000 - CvCeilIn(BigMul(num, BigMul(Big(1000000), Big(1000000))), den,
                                0, 1000000)

\* the four factors that are fractions of small numbers, as <<numerator, denominator>>
source_diversity(md) == <<Min(4, unique_sources(md)), 4>>

\* a variant of sample_size without min(1.0, ...)
sample_size_uncapped(md) == <<SumSamples(md), 20>>

sample_size(md) == <<Min(20, SumSamples(md)), 20>>
data_recency(md, t) == IF md # <<>> THEN <<recent_points(md, t), Len(md)>> ELSE <<0, 1>>
card_specificity(c) == <<Min(100, specificity(c)), 100>>

(* score = sum(factors[k] * WEIGHTS[k] * 100).  ScoreRest is the sum        *)
(* without the value_consistency term, times ScoreDen.                      *)
ScoreDen(md) == 100 * Max(1, Len(md))

ScoreRest(c, md, t) ==
    LET sd == source_diversity(md)
        ss == sample_size(md)
        dr == data_recency(md, t)
        cs == card_specificity(c)
        den == ScoreDen(md)
    IN    (sd[1] * WEIGHTS["source_diversity"] * den) \div sd[2]
        + (ss[1] * WEIGHTS["sample_size"] * den) \div ss[2]
        + (dr[1] * WEIGHTS["data_recency"] * den) \div dr[2]
        + (cs[1] * WEIGHTS["card_specificity"] * den) \div cs[2]

\* what the score is made of: score = (rest + 25 * den * value_consistency) / den,
\* value_consistency being 0.5 (dflt) or max(0, 1 - sqrt(num / cden))
ScoreParts(c, md, t) ==
    [rest |-> ScoreRest(c, md, t),
     den  |-> ScoreDen(md),
     dflt |-> ConsistencyDefault(md),
     num  |-> CvNum(Values(md)),
     cden |-> CvDen(Values(md))]

\* score >= tn / td
ScoreGeq(sp, tn, td) ==
    LET \* WEIGHTS * value_consistency >= D / (den * td)
        D == sp.den * tn - sp.rest * td
        M == WEIGHTS["value_consistency"] * sp.den * td
    IN  IF sp.dflt THEN 2 * D <= M
        ELSE IF D <= 0 THEN TRUE
        ELSE IF D > M THEN FALSE
        ELSE RootLeq(sp.num, sp.cden, M - D, M)

\* score > tn / td
ScoreGt(sp, tn, td) ==
    LET D == sp.den * tn - sp.rest * td
        M == WEIGHTS["value_consistency"] * sp.den * td
    IN  IF sp.dflt THEN 2 * D < M
        ELSE IF D < 0 THEN TRUE
        ELSE IF D >= M THEN FALSE
        ELSE RootLt(sp.num, sp.cden, M - D, M)

\* the largest k in lo..hi with score >= k / 10 - 1 / 20 (lo is known to satisfy it)
RECURSIVE ScoreTenthsIn(_, _, _)
ScoreTenthsIn(sp, lo, hi) ==
    IF lo = hi THEN lo
    ELSE LET mid == lo + (hi - lo + 1) \div 2
         IN  IF ScoreGeq(sp, 2 * mid - 1, 20)
             THEN ScoreTenthsIn(sp, mid, hi)
             ELSE ScoreTenthsIn(sp, lo, mid - 1)

\* round(score, 1), in tenths; the score lies between rest / den and rest / den + 25
RoundedScore(sp) ==
    LET lo == (10 * sp.rest) \div sp.den
        k  == ScoreTenthsIn(sp, lo, lo + 251)
    IN  IF k > 0 /\ k % 2 = 1 /\ ~ScoreGt(sp, 2 * k - 1, 20) THEN k - 1 ELSE k

\* the level, from the score before it is rounded
Level(sp) ==
    IF ScoreGeq(sp, 85, 1) THEN "very_high"
    ELSE IF ScoreGeq(sp, 75, 1) THEN "high"
    ELSE IF ScoreGeq(sp, 60, 1) THEN "medium"
    ELSE IF ScoreGeq(sp, 40, 1) THEN "low"
    ELSE "very_low"

\* calculate(card, market_data) at clock t: [level, score (tenths), factors (millionths)]
calculate(c, md, t) ==
    LET ppm(f) == (f[1] * 1000000) \div f[2]
        sp     == ScoreParts(c, md, t)
    IN  [level   |-> Level(sp),
         score   |-> RoundedScore(sp),
         factors |-> [source_diversity  |-> ppm(source_diversity(md)),
                      sample_size       |-> ppm(sample_size(md)),
                      data_recency      |-> ppm(data_recency(md, t)),
                      value_consistency |-> value_consistency(md),
                      card_specificity  |-> ppm(card_specificity(c))]]

-----------------------------------------------------------------------------
(* MockDataFactory.                                                         *)

txt_mock == <<"m", "o", "c", "k">>
url_ebay_mock == <<"h", "t", "t", "p", "s", ":", "/", "/", "e", "b", "a", "y", ".", "c", "o", "m", "/", "i", "t", "m", "/", "m", "o", "c", "k", "_">>
url_130point_mock == <<"h", "t", "t", "p", "s", ":", "/", "/", "1", "3", "0", "p", "o", "i", "n", "t", ".", "c", "o", "m", "/", "s", "a", "l", "e", "s", "/", "m", "o", "c", "k">>
url_pwcc_mock == <<"h", "t", "t", "p", "s", ":", "/", "/", "p", "w", "c", "c", ".", "c", "o", "m", "/", "m", "o", "c", "k">>
url_comc_mock == <<"h", "t", "t", "p", "s", ":", "/", "/", "c", "o", "m", "c", ".", "c", "o", "m", "/", "m", "o", "c", "k">>
txt_sold == <<"S", "o", "l", "d", " ">>
txt_days_ago == <<" ", "d", "a", "y", "s", " ", "a", "g", "o">>
txt_psa_note == <<"P", "S", "A", " ", "9", " ", "r", "e", "f", "e", "r", "e", "n", "c", "e", " ", "p", "r", "i", "c", "e">>
txt_ebay_key == <<":", "e", "b", "a", "y", ":">>

(* int(hashlib.md5(text.encode()).hexdigest()[:8], 16) for the texts the    *)
(* factory hashes for the players of the model: <<text, seed>>, the seed a  *)
(* Big (it can exceed 31 bits).                                             *)
MD5_SEEDS == <<
    <<<<"P", "a", "t", "r", "i", "c", "k", " ", "M", "a", "h", "o", "m", "e", "s">>,
      <<6823, 2663, 5>>>>,
    <<<<"P", "a", "t", "r", "i", "c", "k", " ", "M", "a", "h", "o", "m", "e", "s", ":", "e", "b", "a", "y", ":", "0">>,
      <<9727, 3619, 12>>>>,
    <<<<"P", "a", "t", "r", "i", "c", "k", " ", "M", "a", "h", "o", "m", "e", "s", ":", "e", "b", "a", "y", ":", "1">>,
      <<7067, 8797, 40>>>>,
    <<<<"P", "a", "t", "r", "i", "c", "k", " ", "M", "a", "h", "o", "m", "e", "s", ":", "e", "b", "a", "y", ":", "2">>,
      <<9182, 1668, 22>>>>,
    <<<<"P", "a", "t", "r", "i", "c", "k", " ", "M", "a", "h", "o", "m", "e", "s", ":", "e", "b", "a", "y", ":", "3">>,
      <<1625, 1284, 40>>>>,
    <<<<"P", "a", "t", "r", "i", "c", "k", " ", "M", "a", "h", "o", "m", "e", "s", ":", "e", "b", "a", "y", ":", "4">>,
      <<5108, 4597, 37>>>>,
    <<<<"C", "y">>,
      <<5907, 1370, 6>>>>,
    <<<<"C", "y", ":", "e", "b", "a", "y", ":", "0">>,
      <<9151, 7874, 14>>>>,
    <<<<"C", "y", ":", "e", "b", "a", "y", ":", "1">>,
      <<763, 3207, 32>>>>,
    <<<<"C", "y", ":", "e", "b", "a", "y", ":", "2">>,
      <<3152, 2626, 29>>>>,
    <<<<"C", "y", ":", "e", "b", "a", "y", ":", "3">>,
      <<4855, 8513, 24>>>>,
    <<<<"C", "y", ":", "e", "b", "a", "y", ":", "4">>,
      <<3468, 1114, 27>>>>
>>

\* a seed in the manner of the built-in hash(): salted anew for every process,
\* so that a second call, made by another process, hashes the text differently
seed_salted(text) ==
    IF last.called THEN <<last.n>>
    ELSE MD5_SEEDS[CHOOSE i \in 1..Len(MD5_SEEDS) : MD5_SEEDS[i][1] = text][2]

\* _seed(text)
seed_of(text) == MD5_SEEDS[CHOOSE i \in 1..Len(MD5_SEEDS) : MD5_SEEDS[i][1] = text][2]

\* seed % m, for a machine integer m
SeedMod(text, m) == BigShortDiv(seed_of(text), m).r

\* _base_value(card), in thousandths of a dollar
mock_base_value(c) ==
    LET b0 == (SeedMod(c.player, 100) + 10) * 1000
        b1 == IF c.rookie THEN b0 * 2 ELSE b0
        b2 == IF c.autograph THEN b1 * 3 ELSE b1
        b3 == IF Truthy(c.serial_number) THEN (b2 * 15) \div 10 ELSE b2
        b4 == IF Truthy(c.parallel) THEN (b3 * 13) \div 10 ELSE b3
        b5 == IF c.year < 1980 THEN b4 * 3
              ELSE IF c.year >= 2020 THEN (b4 * 12) \div 10
              ELSE IF 1986 <= c.year /\ c.year <= 1994 THEN (b4 * 3) \div 10
              ELSE b4
    IN  Max(1000, b5)

\* base_value * f cut to whole cents instead of rounded
MockValue_truncated(base, f) == (base * f) \div 1000

\* round(base_value * f, 2) in cents, for a factor f given in hundredths
MockValue(base, f) == Round(Frac(base * f, 1000))

\* generate(card) at clock t
generate(c, t) ==
    LET base == mock_base_value(c)
        ebay(i) ==
            LET key == c.player \o txt_ebay_key \o Str(i)
            IN  [source      |-> "ebay_sold",
                 value       |-> MockValue(base, 100 + SeedMod(key, 20) - 10),
                 date        |-> t - i * 7,
                 sample_size |-> 3,
                 condition   |-> c.condition,
                 url         |-> Some(url_ebay_mock \o Str(SeedMod(key, 99999))),
                 notes       |-> Some(txt_sold \o Str(i * 7) \o txt_days_ago)]
        p130 == [source |-> "130point", value |-> MockValue(base, 105), date |-> t - 5,
                 sample_size |-> 15, condition |-> c.condition,
                 url |-> Some(url_130point_mock), notes |-> None]
        pwcc == [source |-> "pwcc", value |-> MockValue(base, 120), date |-> t - 10,
                 sample_size |-> 2, condition |-> c.condition,
                 url |-> Some(url_pwcc_mock), notes |-> None]
        comc == [source |-> "comc", value |-> MockValue(base, 95), date |-> t - 3,
                 sample_size |-> 8, condition |-> c.condition,
                 url |-> Some(url_comc_mock), notes |-> None]
        psa  == [source |-> "psa_apr", value |-> MockValue(base, 200), date |-> t - 30,
                 sample_size |-> 5, condition |-> "mint",
                 url |-> None, notes |-> Some(txt_psa_note)]
    IN  [i \in 1..5 |-> ebay(i - 1)]
        \o <<p130>>
        \o (IF base > 50000 THEN <<pwcc>> ELSE <<>>)
        \o <<comc>>
        \o (IF ~c.graded THEN <<psa>> ELSE <<>>)

-----------------------------------------------------------------------------
(* CardValueEstimator.                                                      *)

\* in hundredths; a source that is not listed weighs 0.05
SOURCE_WEIGHTS(source) ==
    CASE source = "ebay_sold" -> 35
      [] source = "130point"  -> 20
      [] source = "pwcc"      -> 15
      [] source = "comc"      -> 10
      [] source = "beckett"   -> 8
      [] source = "psa_apr"   -> 7
      [] source = "sportlots" -> 5
      [] OTHER                -> 5

\* source_groups[source]: the values of the points of one source, in list order
RECURSIVE source_group(_, _)
source_group(md, source) ==
    IF md = <<>> THEN <<>>
    ELSE (IF Head(md).source = source THEN <<Head(md).value>> ELSE <<>>)
             \o source_group(Tail(md), source)

\* the keys of source_groups: the sources in the order of their first point
RECURSIVE source_keys(_, _)
source_keys(md, seen) ==
    IF md = <<>> THEN <<>>
    ELSE IF Head(md).source \in seen THEN source_keys(Tail(md), seen)
    ELSE <<Head(md).source>> \o source_keys(Tail(md), seen \cup {Head(md).source})

\* the float of a value given in cents
Dollars(cents) == Double(Frac(cents, 100))

\* statistics.median(values): the middle value, or (a + b) / 2 of the two
\* middle values
median(vals) ==
    IF Len(vals) % 2 = 1 THEN Dollars(KthSmallest(vals, (Len(vals) + 1) \div 2))
    ELSE FDiv(FAdd(Dollars(KthSmallest(vals, Len(vals) \div 2)),
                   Dollars(KthSmallest(vals, Len(vals) \div 2 + 1))),
              Frac(2, 1))

\* statistics.mean(values): the exact mean of the floats, rounded once
RECURSIVE mean_sum(_)
mean_sum(vals) ==
    IF vals = <<>> THEN Frac(0, 1) ELSE QAdd(Dollars(Head(vals)), mean_sum(Tail(vals)))

mean(vals) == Double(QDiv(mean_sum(vals), Frac(Len(vals), 1)))

\* min(1.0, len(values) / 10)
damping(count) == IF count >= 10 THEN Frac(1, 1) ELSE Double(Frac(count, 10))

\* base_weight * min(1.0, len(values) / 10)
adjusted_weight(md, source) ==
    FMul(Double(Frac(SOURCE_WEIGHTS(source), 100)), damping(Len(source_group(md, source))))

\* weighted_sum and total_weight after the loop over the sources keys
RECURSIVE weighted_sum(_, _)
weighted_sum(md, keys) ==
    IF keys = <<>> THEN Frac(0, 1)
    ELSE FAdd(weighted_sum(md, SubSeq(keys, 1, Len(keys) - 1)),
              FMul(median(source_group(md, keys[Len(keys)])),
                   adjusted_weight(md, keys[Len(keys)])))

\* a variant of total_weight that adds the weights up before their damping
RECURSIVE total_weight_undamped(_, _)
total_weight_undamped(md, keys) ==
    IF keys = <<>> THEN Frac(0, 1)
    ELSE FAdd(total_weight_undamped(md, SubSeq(keys, 1, Len(keys) - 1)),
              Double(Frac(SOURCE_WEIGHTS(keys[Len(keys)]), 100)))

RECURSIVE total_weight(_, _)
total_weight(md, keys) ==
    IF keys = <<>> THEN Frac(0, 1)
    ELSE FAdd(total_weight(md, SubSeq(keys, 1, Len(keys) - 1)),
              adjusted_weight(md, keys[Len(keys)]))

\* a variant of weighted_quotient that returns weighted_sum undivided
weighted_quotient_undivided(md, keys, total) ==
    IF total.n = <<>> THEN mean(Values(md)) ELSE weighted_sum(md, keys)

\* the return value of _weighted_value, in dollars, from the keys of
\* source_groups and total_weight
weighted_quotient(md, keys, total) ==
    IF total.n = <<>> THEN mean(Values(md)) ELSE FDiv(weighted_sum(md, keys), total)

weighted_dollars_of(md, keys) ==
    CHOOSE r \in {weighted_quotient(md, keys, total) : total \in {total_weight(md, keys)}} : TRUE

\* the float _weighted_value(market_data) returns, in dollars
weighted_dollars(md) ==
    IF md = <<>> THEN Frac(0, 1) ELSE weighted_dollars_of(md, source_keys(md, {}))

\* _weighted_value(market_data): a fraction of cents
weighted_value(md) == QMul(weighted_dollars(md), Frac(100, 1))

\* a variant of has_real_data without the "dp.url and" guard: str(None) is "None",
\* which does not contain "mock"
has_real_data_no_url_guard(md) ==
    \E i \in 1..Len(md) :
        /\ md[i].source = "ebay_sold"
        /\ ~(md[i].url.some /\ Contains(txt_mock, md[i].url.val))

\* any(dp.url and "mock" not in str(dp.url) for dp in market_data if dp.source == "ebay_sold")
has_real_data(md) ==
    \E i \in 1..Len(md) :
        /\ md[i].source = "ebay_sold"
        /\ Truthy(md[i].url)
        /\ ~Contains(txt_mock, md[i].url.val)

\* a variant of variance without the floor of 0.05
variance_unfloored(score) ==
    FSub(Frac(1, 2), FDiv(Double(Frac(score, 10)), Frac(200, 1)))

\* variance = max(0.05, 0.5 - (confidence_score / 200)), the score in tenths
variance(score) ==
    CHOOSE v \in {IF QLt(Double(Frac(5, 100)), d) THEN d ELSE Double(Frac(5, 100)) :
                      d \in {FSub(Frac(1, 2), FDiv(Double(Frac(score, 10)), Frac(200, 1)))}} : TRUE

\* round(x, 2) of a float of dollars, in cents
RoundCents(x) == Round(QMul(x, Frac(100, 1)))

\* (round(value * (1 - variance), 2), round(value * (1 + variance), 2))
range_around(value, v) ==
    <<RoundCents(FMul(value, FSub(Frac(1, 1), v))), RoundCents(FMul(value, FAdd(Frac(1, 1), v)))>>

\* a variant of value_range that returns the two bounds in the other order
value_range_inverted(value, score) ==
    CHOOSE r \in {<<x[2], x[1]>> : x \in {range_around(Dollars(value), variance(score))}} : TRUE

\* _value_range(value, confidence_score): value in cents, the score in tenths
value_range(value, score) ==
    CHOOSE r \in {range_around(d, v) : d \in {Dollars(value)}, v \in {variance(score)}} : TRUE

\* a variant of grading_recommendation that returns None for the cards with a
\* grade_value instead of the graded ones
grading_recommendation_by_grade_value(c, value) ==
    IF c.grade_value.some THEN "None"
    ELSE IF value < 2000 THEN "Not worth grading unless gem mint condition"
    ELSE IF value < 5000 THEN "Consider grading if confident in 9+ grade"
    ELSE IF value < 10000 THEN "Grading recommended if NM+ or better"
    ELSE IF value < 50000 THEN "Definitely grade if NM or better"
    ELSE "High value - professional grading essential"

\* _grading_recommendation(card, value), value in cents; None is "None" and the
\* dash of the last text is written as a hyphen
grading_recommendation(c, value) ==
    IF c.graded THEN "None"
    ELSE IF value < 2000 THEN "Not worth grading unless gem mint condition"
    ELSE IF value < 5000 THEN "Consider grading if confident in 9+ grade"
    ELSE IF value < 10000 THEN "Grading recommended if NM+ or better"
    ELSE IF value < 50000 THEN "Definitely grade if NM or better"
    ELSE "High value - professional grading essential"

\* sorted(market_data, key=lambda x: x.date): stable, by date
sorted_data(md) ==
    LET rank(i) == Cardinality({j \in 1..Len(md) :
                       md[j].date < md[i].date \/ (md[j].date = md[i].date /\ j < i)}) + 1
    IN  [k \in 1..Len(md) |-> md[CHOOSE i \in 1..Len(md) : rank(i) = k]]

\* round(x, 1) in tenths, for a fraction x that carries a sign
SignedTenths(negative, x) ==
    LET r == Round(QMul(x, Frac(10, 1))) IN IF negative THEN 0 - r ELSE r

\* a variant of recent_window that takes the last two points
recent_window_last_two(n) == (n - 1)..n

\* the positions of sorted_data[-3:] and of sorted_data[:3] in a list of n >= 3 points
recent_window(n) == (n - 2)..n
older_window(n) == 1..3

\* [dp.value for dp in ...] over a window of positions
window_values(sd, w) ==
    LET lowest == CHOOSE i \in w : \A j \in w : i <= j
    IN  [k \in 1..Cardinality(w) |-> sd[lowest + k - 1].value]

\* change_pct as a sign and a float: ((recent_avg - older_avg) / older_avg) * 100,
\* or 0.0 when older_avg is not above 0
change_of(recent_avg, older_avg) ==
    IF older_avg.n = <<>> THEN [down |-> FALSE, pct |-> Frac(0, 1)]
    ELSE IF QLt(recent_avg, older_avg)
    THEN [down |-> TRUE,
          pct |-> FMul(FDiv(FSub(older_avg, recent_avg), older_avg), Frac(100, 1))]
    ELSE [down |-> FALSE,
          pct |-> FMul(FDiv(FSub(recent_avg, older_avg), older_avg), Frac(100, 1))]

change_pct(sd) ==
    CHOOSE c \in {change_of(recent_avg, older_avg) :
                      recent_avg \in {mean(window_values(sd, recent_window(Len(sd))))},
                      older_avg \in {mean(window_values(sd, older_window(Len(sd))))}} : TRUE

\* trends["volatility"]
volatility(md) ==
    IF BigSum(Values(md)) = <<>> THEN "low"
    ELSE IF ~CvLeq(Values(md), 3, 10) THEN "high"
    ELSE IF ~CvLeq(Values(md), 15, 100) THEN "medium"
    ELSE "low"

\* the trends of three points or more, from change_pct
trends_of(md, c) ==
       ("direction" :> IF QLt(Frac(10, 1), c.pct) THEN (IF c.down THEN "down" ELSE "up")
                       ELSE "stable")
    @@ ("velocity" :> "normal")
    @@ ("30_day_change" :> SignedTenths(c.down, FDiv(c.pct, Frac(2, 1))))
    @@ ("90_day_change" :> SignedTenths(c.down, c.pct))
    @@ ("volatility" :> volatility(md))
    @@ ("recommendation" :> IF ~c.down /\ QLt(Frac(30, 1), c.pct) THEN "sell high"
                            ELSE IF c.down /\ QLt(Frac(20, 1), c.pct) THEN "buy low"
                            ELSE "hold")

\* _market_trends(market_data); the changes in tenths of a percent
market_trends(md) ==
    IF Len(md) < 3
    THEN    ("direction" :> "stable") @@ ("velocity" :> "normal")
         @@ ("30_day_change" :> 0) @@ ("90_day_change" :> 0)
         @@ ("volatility" :> "low") @@ ("recommendation" :> "hold")
    ELSE CHOOSE t \in {trends_of(md, c) : c \in {change_pct(sorted_data(md))}} : TRUE

\* the note of the skipped stage (its dash written as a hyphen)
skip_note == "multipliers skipped - real sold comp data"

\* a variant of multiplier_stage that multiplies real comps as well and still
\* reports the note
multiplier_stage_inflated(real, base, c) ==
    IF real
    THEN [adjusted |-> apply_all(base, c).adjusted, breakdown |-> "note" :> skip_note]
    ELSE apply_all(base, c)

\* a variant of multiplier_stage that never skips
multiplier_stage_always(real, base, c) == apply_all(base, c)

\* step 2 of estimate_value: (adjusted_value, mult_breakdown) from has_real_data,
\* the base value and the card
multiplier_stage(real, base, c) ==
    IF real
    THEN [adjusted |-> Round(base), breakdown |-> "note" :> skip_note]
    ELSE apply_all(base, c)

\* the ValueEstimate, from the results of the steps
build_estimate(c, data, t, stage, conf) ==
    [called                 |-> TRUE,
     raised                 |-> FALSE,
     estimated_value        |-> stage.adjusted,
     confidence             |-> conf.level,
     confidence_score       |-> conf.score,
     value_range            |-> value_range(stage.adjusted, conf.score),
     data_points            |-> data,
     market_trends          |-> market_trends(data),
     grading_recommendation |-> grading_recommendation(c, stage.adjusted),
     accuracy_factors       |-> conf.factors,
     multipliers_applied    |-> stage.breakdown,
     timestamp              |-> t]

\* steps 1 to 6 of estimate_value, on the market data it settled on
estimate_from(c, data, t) ==
    CHOOSE e \in {build_estimate(c, data, t,
                                 multiplier_stage(has_real_data(data), base, c),
                                 calculate(c, data, t)) :
                      base \in {weighted_value(data)}} : TRUE

\* estimate_value(card, market_data, use_mock) at clock t
estimate_value(c, md, mock, t) ==
    IF ~md.some /\ ~mock
    THEN [called |-> TRUE, raised |-> TRUE, error |-> "ValueError"]
    ELSE estimate_from(c, IF ~md.some THEN generate(c, t) ELSE md.val, t)

-----------------------------------------------------------------------------
(* Inputs.                                                                  *)

NoCall == [called |-> FALSE]

\* none of the operations studied on their own has been called
IdleValue == adjusted_value = 0 /\ ranged = NoCall /\ grading = NoCall
IdleValidator == history = <<>> /\ validations = <<>> /\ report = NoCall
IdleLimiter ==
    /\ limiter = [max_calls |-> 0, window |-> 0, timestamps |-> <<>>]
    /\ clock = 0 /\ grants = <<>> /\ acquired = NoCall /\ remaining_read = NoCall
IdleThreads == threads = <<>>

InitOthers ==
    /\ weighted = NoCall
    /\ IdleValue
    /\ trends = NoCall
    /\ IdleValidator
    /\ IdleLimiter
    /\ IdleThreads

txt_mahomes == <<"P", "a", "t", "r", "i", "c", "k", " ", "M", "a", "h", "o", "m", "e", "s">>
txt_cy == <<"C", "y">>
txt_23_25 == <<"2", "3", "/", "2", "5">>
txt_no_serial == <<"N", "o", ".", " ", "1", "2", " ", "o", "f", " ", "9", "9">>
txt_cracked_ice == <<"C", "r", "a", "c", "k", "e", "d", " ", "I", "c", "e">>
txt_gold_refractor == <<"G", "o", "l", "d", " ", "R", "e", "f", "r", "a", "c", "t", "o", "r">>
txt_aqua_wave == <<"A", "q", "u", "a", " ", "W", "a", "v", "e">>

\* the largest base_value of the apply_all runs, in steps of BaseStep cents
MaxBase == 2
BaseStep == 333

MultBases == {b * BaseStep : b \in 0..MaxBase}

MultCards ==
    [player        : {txt_mahomes},
     year          : {1975, 1990, 2000, 2017},
     sport         : {"football", "hockey"},
     parallel      : {None, Some(txt_cracked_ice), Some(txt_gold_refractor), Some(txt_aqua_wave)},
     serial_number : {None, Some(txt_23_25), Some(txt_no_serial)},
     autograph     : BOOLEAN,
     rookie        : BOOLEAN,
     condition     : {"gem_mint", "good"},
     graded        : BOOLEAN,
     grade_value   : {NoneNum, Some(9600), Some(5000)}]

url_ebay_real == <<"h", "t", "t", "p", "s", ":", "/", "/", "e", "b", "a", "y", ".", "c", "o", "m", "/", "i", "t", "m", "/", "1", "1", "5", "5">>

\* the two cards of the smoke test's kind: the "__main__" card, and a plain and a graded one
CardA ==
    [player |-> txt_mahomes, year |-> 2017, sport |-> "football",
     parallel |-> Some(txt_cracked_ice), serial_number |-> Some(txt_23_25),
     autograph |-> TRUE, rookie |-> TRUE, condition |-> "nm_plus",
     graded |-> FALSE, grade_value |-> NoneNum]

CardPlain ==
    [player |-> txt_cy, year |-> 2000, sport |-> "other",
     parallel |-> None, serial_number |-> None,
     autograph |-> FALSE, rookie |-> FALSE, condition |-> "raw",
     graded |-> FALSE, grade_value |-> NoneNum]

CardGraded ==
    [player |-> txt_cy, year |-> 1990, sport |-> "hockey",
     parallel |-> Some(txt_gold_refractor), serial_number |-> None,
     autograph |-> FALSE, rookie |-> TRUE, condition |-> "good",
     graded |-> TRUE, grade_value |-> Some(9600)]

EstCards == {CardA, CardPlain, CardGraded}

\* the longest market_data list of the estimate_value runs
MaxPoints == 2
\* the latest clock reading of the estimate_value runs
MaxClock == 1

Lists(points, n) == UNION {[1..k -> points] : k \in 0..n}

EstPoints ==
    {[source |-> s, value |-> p[2], date |-> p[3], sample_size |-> 1,
      condition |-> "raw", url |-> p[1], notes |-> None] :
        s \in {"ebay_sold", "130point"},
        p \in {<<None, 500, -29>>, <<Some(url_130point_mock), 600, -1>>,
               <<Some(url_ebay_real), 700, -28>>}}

EstData == {None} \cup {Some(l) : l \in Lists(EstPoints, MaxPoints)}

\* the longest market_data list of the calculate runs
MaxConfPoints == 2

ConfPoints ==
    {[source |-> p[1], value |-> p[2], date |-> d, sample_size |-> n,
      condition |-> "raw", url |-> None, notes |-> None] :
        p \in {<<"ebay_sold", 1100>>, <<"130point", 1200>>},
        d \in {-40, -1},
        n \in {1, 10, 25}}

ConfData == {Some(l) : l \in Lists(ConfPoints, MaxConfPoints)}

ConfCards ==
    [player : {txt_cy}, year : {2000}, sport : {"other"},
     parallel : {None, Some(txt_aqua_wave)}, serial_number : {None, Some(txt_23_25)},
     autograph : {FALSE}, rookie : {FALSE}, condition : {"raw"},
     graded : BOOLEAN, grade_value : {NoneNum}]

-----------------------------------------------------------------------------
(* MultiplierEngine.apply_all on its own.                                   *)

InitMult ==
    /\ now = 0
    /\ card \in MultCards
    /\ market_data = None
    /\ use_mock = TRUE
    /\ base_value \in MultBases
    /\ first = NoCall
    /\ last = NoCall
    /\ applied = NoCall
    /\ confidence = NoCall
    /\ InitOthers

ApplyAll ==
    /\ applied' = [called |-> TRUE, out |-> apply_all(Frac(base_value, 1), card)]
    /\ UNCHANGED <<now, card, market_data, use_mock, base_value, first, last, confidence, others>>

NextMult == ApplyAll

SpecMult == InitMult /\ [][NextMult]_vars

\* the raw product of the seven factors exceeds the cap
OverCap(c) == QLt(Frac(MAX_COMPOUND_MULTIPLIER, 1000), raw_compound(c))

-----------------------------------------------------------------------------
(* ConfidenceCalculator.calculate on its own.                               *)

InitConf ==
    /\ now = 0
    /\ card \in ConfCards
    /\ market_data \in ConfData
    /\ use_mock = FALSE
    /\ base_value = 0
    /\ first = NoCall
    /\ last = NoCall
    /\ applied = NoCall
    /\ confidence = NoCall
    /\ InitOthers

Calculate ==
    /\ confidence' = [called |-> TRUE, out |-> calculate(card, market_data.val, now)]
    /\ UNCHANGED <<now, card, market_data, use_mock, base_value, first, last, applied, others>>

NextConf == Calculate

SpecConf == InitConf /\ [][NextConf]_vars

C9_LevelMatchesReturnedScore ==
    confidence.called =>
        LET score == confidence.out.score
        IN  confidence.out.level =
                (IF score >= 850 THEN "very_high"
                 ELSE IF score >= 750 THEN "high"
                 ELSE IF score >= 600 THEN "medium"
                 ELSE IF score >= 400 THEN "low"
                 ELSE "very_low")

\* a call that returns the score 75.0 with the level "medium"
C9_Witness ==
    /\ confidence.called
    /\ confidence.out.score = 750
    /\ confidence.out.level = "medium"

-----------------------------------------------------------------------------
(* CardValueEstimator.estimate_value, called again and again on one card    *)
(* and one market_data while the clock advances.                            *)

Init ==
    /\ now = 0
    /\ card \in EstCards
    /\ market_data \in EstData
    /\ use_mock \in BOOLEAN
    /\ base_value = 0
    /\ first = NoCall
    /\ last = NoCall
    /\ applied = NoCall
    /\ confidence = NoCall
    /\ InitOthers

EstimateValue ==
    /\ last' = estimate_value(card, market_data, use_mock, now)
    /\ first' = IF first.called THEN first ELSE last'
    /\ UNCHANGED <<now, card, market_data, use_mock, base_value, applied, confidence, others>>

Tick ==
    /\ now < MaxClock
    /\ now' = now + 1
    /\ UNCHANGED <<card, market_data, use_mock, base_value, first, last, applied, confidence, others>>

Next == EstimateValue \/ Tick

Spec == Init /\ [][Next]_vars

\* the last call returned a ValueEstimate
Returned == last.called /\ ~last.raised

\* the i-th data point of the estimate e is an ebay_sold point whose url is a
\* non-empty text without "mock"
RealEbayPoint(e, i) ==
    /\ e.data_points[i].source = "ebay_sold"
    /\ e.data_points[i].url.some
    /\ e.data_points[i].url.val # <<>>
    /\ ~Contains(txt_mock, e.data_points[i].url.val)

(* C2: for every ValueEstimate that estimate_value returns, value_range =    *)
(* (low, high) satisfies 0 <= low <= estimated_value <= high.               *)
C2_RangeBracketsValue ==
    Returned =>
        /\ 0 <= last.value_range[1]
        /\ last.value_range[1] <= last.estimated_value
        /\ last.estimated_value <= last.value_range[2]

\* an estimate above zero with a range that is strictly wider than the value
C2_Witness ==
    /\ Returned
    /\ 0 < last.value_range[1]
    /\ last.value_range[1] < last.estimated_value
    /\ last.estimated_value < last.value_range[2]

(* C3: estimate_value raises an error and returns no estimate whenever      *)
(* use_mock is false and market_data is absent (None) or an empty list.     *)
C3_RaisesWithoutData ==
    (last.called /\ ~use_mock /\ (~market_data.some \/ market_data.val = <<>>))
        => last.raised

\* the call with use_mock false and market_data = [] returns an estimate of 0
C3_Witness ==
    /\ Returned
    /\ ~use_mock
    /\ market_data = Some(<<>>)
    /\ last.estimated_value = 0

(* C4: when estimate_value is called with use_mock true and market_data     *)
(* absent or empty, the estimate is computed from                           *)
(* MockDataFactory.generate(card): data_points is that non-empty list.      *)
C4_MockWhenAbsentOrEmpty ==
    (last.called /\ use_mock /\ (~market_data.some \/ market_data.val = <<>>))
        => /\ ~last.raised
           /\ last.data_points # <<>>
           /\ last.data_points = generate(card, last.timestamp)

\* the call with use_mock true and market_data = [] returns no data points
C4_Witness ==
    /\ Returned
    /\ use_mock
    /\ market_data = Some(<<>>)
    /\ last.data_points = <<>>

C7_TotalAlwaysPresent ==
    Returned =>
        /\ "_total" \in DOMAIN last.multipliers_applied
        /\ last.multipliers_applied["_total"] <= 25000

(* C7, amended: every ValueEstimate whose multiplier stage was not skipped  *)
(* has a multipliers_applied map that contains "_total" with a value        *)
(* <= 25.0; when the stage was skipped (a real ebay_sold url is present)    *)
(* the map holds the "note" alone and no "_total".                          *)
C7_TotalWhenNotSkipped ==
    Returned =>
        IF \E i \in 1..Len(last.data_points) : RealEbayPoint(last, i)
        THEN DOMAIN last.multipliers_applied = {"note"}
        ELSE /\ "_total" \in DOMAIN last.multipliers_applied
             /\ last.multipliers_applied["_total"] <= 25000

\* an estimate on synthetic data whose product of factors was cut to 25.0
C7_Witness ==
    /\ Returned
    /\ ~market_data.some
    /\ "_cap_applied" \in DOMAIN last.multipliers_applied
    /\ last.multipliers_applied["_uncapped"] > 25000
    /\ last.multipliers_applied["_total"] = 25000

\* what C10 compares
Outputs(e) ==
    <<e.estimated_value, e.confidence, e.confidence_score, e.value_range,
      e.market_trends, e.grading_recommendation, e.multipliers_applied>>

(* C10, as the claim states it: two calls with equal card and equal         *)
(* market_data return equal estimated_value, confidence level,              *)
(* confidence_score, value_range, market_trends, grading_recommendation and *)
(* multipliers_applied, whatever the wall-clock time of each call.          *)
C10_PureOfCardAndData ==
    (first.called /\ last.called) =>
        /\ first.raised = last.raised
        /\ ~last.raised => Outputs(first) = Outputs(last)

(* C10, amended: two calls with equal card and equal market_data return     *)
(* equal estimated_value, market_trends, grading_recommendation and         *)
(* multipliers_applied whatever the clock; confidence level,                *)
(* confidence_score and value_range are equal when market_data is absent,   *)
(* or when every point is on the same side of the 30-day cutoff at both     *)
(* calls.                                                                   *)
C10_PureUpToRecency ==
    (first.called /\ last.called) =>
        /\ first.raised = last.raised
        /\ ~last.raised =>
              /\ first.estimated_value = last.estimated_value
              /\ first.market_trends = last.market_trends
              /\ first.grading_recommendation = last.grading_recommendation
              /\ first.multipliers_applied = last.multipliers_applied
              /\ (\/ ~market_data.some
                  \/ \A i \in 1..Len(market_data.val) :
                        (market_data.val[i].date > first.timestamp - 30)
                            <=> (market_data.val[i].date > last.timestamp - 30))
                    => Outputs(first) = Outputs(last)

\* two calls a day apart on points that stay inside the 30-day window
C10_Witness ==
    /\ first.called /\ last.called /\ ~last.raised
    /\ first.timestamp < last.timestamp
    /\ market_data.some
    /\ Len(market_data.val) = 2
    /\ \A i \in 1..2 : market_data.val[i].date > last.timestamp - 30
    /\ first.confidence_score = last.confidence_score
    /\ last.confidence_score > 0

-----------------------------------------------------------------------------
(* MockDataFactory.generate on its own, called again and again on one card  *)
(* while the clock advances.                                                *)

\* the largest number of generate calls in a run
MaxCalls == 2

MockCards ==
    [player        : {txt_mahomes, txt_cy},
     year          : {1975, 1990, 2000, 2021},
     sport         : {"football"},
     parallel      : {None, Some(txt_cracked_ice)},
     serial_number : {None, Some(txt_23_25)},
     autograph     : BOOLEAN,
     rookie        : BOOLEAN,
     condition     : {"raw", "gem_mint"},
     graded        : BOOLEAN,
     grade_value   : {NoneNum}]

InitMock ==
    /\ now = 0
    /\ card \in MockCards
    /\ market_data = None
    /\ use_mock = TRUE
    /\ base_value = 0
    /\ first = NoCall
    /\ last = NoCall
    /\ applied = NoCall
    /\ confidence = NoCall
    /\ InitOthers

\* the number of generate calls made so far
Calls == IF last.called THEN last.n ELSE 0

Generate ==
    /\ Calls < MaxCalls
    /\ last' = [called |-> TRUE, n |-> Calls + 1,
                at |-> now, out |-> generate(card, now)]
    /\ first' = IF first.called THEN first ELSE last'
    /\ UNCHANGED <<now, card, market_data, use_mock, base_value, applied, confidence, others>>

NextMock == Generate \/ Tick

SpecMock == InitMock /\ [][NextMock]_vars

PointsOf(pts, source) == {i \in 1..Len(pts) : pts[i].source = source}

\* the list has exactly one point of the source, and it has this value (base
\* times a factor in hundredths, in cents), sample size, age and condition
OnePoint(pts, source, base, f, samples, at, age, condition) ==
    /\ Cardinality(PointsOf(pts, source)) = 1
    /\ \A i \in PointsOf(pts, source) :
          /\ pts[i].value = Round(Frac(base * f, 1000))
          /\ pts[i].sample_size = samples
          /\ pts[i].date = at - age
          /\ pts[i].condition = condition

\* the schedule of C12 for the list pts that generate returned for the card c
\* at the clock value at, base being _base_value(c)
Scheduled(pts, c, base, at) ==
    /\ Len(pts) = 7 + (IF base > 50000 THEN 1 ELSE 0) + (IF ~c.graded THEN 1 ELSE 0)
    /\ \A i \in 1..Len(pts) :
          pts[i].source \in {"ebay_sold", "130point", "pwcc", "comc", "psa_apr"}
    /\ PointsOf(pts, "ebay_sold") = 1..5
    /\ \A i \in 1..5 :
          LET m == SeedMod(c.player \o txt_ebay_key \o Str(i - 1), 20)
          IN  /\ pts[i].date = at - 7 * (i - 1)
              /\ pts[i].value = Round(Frac(base * (100 + m - 10), 1000))
              /\ Round(Frac(base * 90, 1000)) <= pts[i].value
              /\ pts[i].value <= Round(Frac(base * 109, 1000))
    /\ OnePoint(pts, "130point", base, 105, 15, at, 5, c.condition)
    /\ IF base > 50000
       THEN OnePoint(pts, "pwcc", base, 120, 2, at, 10, c.condition)
       ELSE PointsOf(pts, "pwcc") = {}
    /\ OnePoint(pts, "comc", base, 95, 8, at, 3, c.condition)
    /\ IF ~c.graded
       THEN OnePoint(pts, "psa_apr", base, 200, 5, at, 30, "mint")
       ELSE PointsOf(pts, "psa_apr") = {}

C13_EveryPointMarked ==
    last.called =>
        \A i \in 1..Len(last.out) :
            /\ last.out[i].url.some
            /\ Contains(txt_mock, last.out[i].url.val)

\* the psa_apr point of an ungraded card has no url, while the eight points
\* before it carry the marker
C13_Witness ==
    /\ last.called
    /\ ~card.graded
    /\ Len(last.out) = 9
    /\ last.out[9].source = "psa_apr"
    /\ last.out[9].url = None
    /\ \A i \in 1..8 : /\ last.out[i].url.some
                        /\ Contains(txt_mock, last.out[i].url.val)

-----------------------------------------------------------------------------
(* MultiplierEngine.apply_all, one factor at a time: cards that differ from *)
(* a plain card in the grading, the serial number, the parallel or the      *)
(* year.                                                                    *)

txt_holo_gold == <<"H", "o", "l", "o", " ", "G", "o", "l", "d">>
txt_one_of_one == <<"o", "n", "e", " ", "o", "f", " ", "o", "n", "e">>

\* grade values in thousandths: the ends of the ranges of GRADE_MULTIPLIERS,
\* values between two ranges, and values outside [0, 10]
GradeValues ==
    {-1000, 0, 5000, 6990, 6995, 7000, 7990, 7995, 8000, 8990, 8995, 9000,
     9490, 9495, 9500, 9600, 10000, 10500}

\* print runs at and just above every row of SCARCITY_TABLE
SerialTotals ==
    {0, 1, 2, 5, 6, 10, 11, 25, 26, 50, 51, 99, 100, 199, 200, 499, 500, 999, 1000}

SerialCurrents == {0, 1, 2, 7, 10, 23, 45, 46}

FactorSerials ==
    {Some(Str(c) \o <<"/">> \o Str(tot)) :
        c \in SerialCurrents \cup SerialTotals, tot \in SerialTotals}
    \cup {None, Some(<<>>), Some(txt_23_25), Some(txt_no_serial), Some(txt_one_of_one),
          Some(<<"#", "2", "3", "/", "2", "5", " ">>),
          Some(<<"0", "0", "7", "/", "0", "2", "5">>),
          Some(<<"1", "2", "/">>),
          Some(<<"/", "2", "5">>),
          Some(<<"2", "3", "-", "2", "5">>)}

FactorParallels ==
    {None, Some(<<>>), Some(txt_cracked_ice), Some(txt_gold_refractor),
     Some(txt_aqua_wave), Some(txt_holo_gold),
     Some(<<"S", "u", "p", "e", "r", "f", "r", "a", "c", "t", "o", "r">>),
     Some(<<"R", "e", "d", " ", "P", "r", "i", "z", "m", " ", "1", "/", "1">>),
     Some(<<"S", "i", "l", "v", "e", "r", " ", "P", "r", "i", "z", "m">>),
     Some(<<"B", "L", "U", "E", " ", "S", "H", "I", "M", "M", "E", "R">>),
     Some(<<"M", "o", "j", "o", " ", "X", "f", "r", "a", "c", "t", "o", "r">>),
     Some(<<"C", "o", "l", "o", "r", "e", "d">>),
     Some(<<"B", "a", "s", "e">>)}

FactorYears == (1975..2020) \cup {-1, 0, 1900, 3000}

FactorCards ==
    {[CardPlain EXCEPT !.graded = g, !.grade_value = v, !.condition = k] :
        g \in BOOLEAN, v \in {NoneNum} \cup {Some(x) : x \in GradeValues},
        k \in CardCondition}
    \cup {[CardPlain EXCEPT !.serial_number = sn, !.parallel = p] :
            sn \in FactorSerials, p \in {None, Some(txt_aqua_wave)}}
    \cup {[CardPlain EXCEPT !.parallel = p, !.serial_number = sn] :
            p \in FactorParallels, sn \in {None, Some(txt_one_of_one)}}
    \cup {[CardPlain EXCEPT !.year = y] : y \in FactorYears}

InitFactor ==
    /\ now = 0
    /\ card \in FactorCards
    /\ market_data = None
    /\ use_mock = TRUE
    /\ base_value \in MultBases
    /\ first = NoCall
    /\ last = NoCall
    /\ applied = NoCall
    /\ confidence = NoCall
    /\ InitOthers

SpecFactor == InitFactor /\ [][NextMult]_vars

\* the factor that the breakdown b records under the key k; a factor of 1.0
\* other than the first and the era is left out of the breakdown
Factor(b, k) == IF k \in DOMAIN b THEN b[k] ELSE 1000

(* C14: for a card with graded = true and grade_value set, the grade factor *)
(* is 3.0 for a grade in [9.5, 10], 2.0 for [9.0, 9.49], 1.5 for            *)
(* [8.0, 8.99], 1.2 for [7.0, 7.99] and 0.8 for every other grade value,    *)
(* values above 10, below 0 and between two ranges included.                *)
C14_GradeRanges ==
    (applied.called /\ card.graded /\ card.grade_value.some) =>
        LET g == card.grade_value.val
        IN  /\ "grade" \in DOMAIN applied.out.breakdown
            /\ applied.out.breakdown["grade"] =
                   (IF 9500 <= g /\ g <= 10000 THEN 3000
                    ELSE IF 9000 <= g /\ g <= 9490 THEN 2000
                    ELSE IF 8000 <= g /\ g <= 8990 THEN 1500
                    ELSE IF 7000 <= g /\ g <= 7990 THEN 1200
                    ELSE 800)

\* the grade 9.495, between [9.0, 9.49] and [9.5, 10], gets the factor 1.0
C14_Witness ==
    /\ applied.called
    /\ card.graded
    /\ card.grade_value = Some(9495)
    /\ applied.out.breakdown["grade"] = 1000
    /\ applied.out.breakdown["_total"] = 1000

\* the card differs from the plain card in nothing but the grading and the
\* condition, so that the first factor is the whole product
OnlyFirstFactor(c) ==
    [c EXCEPT !.graded = FALSE, !.grade_value = NoneNum, !.condition = "raw"] = CardPlain

(* C15: when graded = true and grade_value is set, the first factor of      *)
(* apply_all is the grade multiplier, recorded under "grade", whatever the  *)
(* condition is (grade 9.6 gives 3.0 for all eight conditions); when        *)
(* graded = false or grade_value is unset, the first factor is the          *)
(* condition-table value, recorded under "condition", and grade_value is    *)
(* ignored.                                                                 *)
C15_GradedPathOverrides ==
    applied.called =>
        LET b == applied.out.breakdown
        IN  IF card.graded /\ card.grade_value.some
            THEN /\ "grade" \in DOMAIN b
                 /\ "condition" \notin DOMAIN b
                 /\ b["grade"] = grade_multiplier(card.grade_value.val)
                 /\ card.grade_value.val = 9600 => b["grade"] = 3000
                 /\ OnlyFirstFactor(card) => b["_total"] = b["grade"]
                 /\ \A k \in CardCondition :
                       applied.out =
                           apply_all(Frac(base_value, 1), [card EXCEPT !.condition = k])
            ELSE /\ "condition" \in DOMAIN b
                 /\ "grade" \notin DOMAIN b
                 /\ b["condition"] = CONDITION_MULTIPLIERS[card.condition]
                 /\ OnlyFirstFactor(card) => b["_total"] = b["condition"]
                 /\ applied.out =
                       apply_all(Frac(base_value, 1), [card EXCEPT !.grade_value = NoneNum])

\* a card graded 9.6 in condition "good" (0.4 in the condition table) is
\* valued at three times the base
C15_Witness ==
    /\ applied.called
    /\ base_value > 0
    /\ card.graded
    /\ card.grade_value = Some(9600)
    /\ card.condition = "good"
    /\ applied.out.breakdown["grade"] = 3000
    /\ applied.out.adjusted = 3 * base_value

(* C16: for a serial_number that contains a current/total match, the        *)
(* scarcity factor is the print-run table value of total (<= 1: 50,         *)
(* <= 5: 10, <= 10: 5, <= 25: 3.5, <= 50: 2.5, <= 99: 2, <= 199: 1.5,       *)
(* <= 499: 1.3, <= 999: 1.1, else 1.0), times 1.2 exactly when current is   *)
(* in {3,7,8,9,10,12,15,23,24,30,32,33,34,45} and current <= total, then    *)
(* times 1.3 when current = 1, otherwise times 1.1 when current = total; an *)
(* absent or unparseable serial gives exactly 1.0.                          *)
C16_ScarcityFactor ==
    applied.called =>
        LET Table(total) ==
                IF total <= 1 THEN 50000 ELSE IF total <= 5 THEN 10000
                ELSE IF total <= 10 THEN 5000 ELSE IF total <= 25 THEN 3500
                ELSE IF total <= 50 THEN 2500 ELSE IF total <= 99 THEN 2000
                ELSE IF total <= 199 THEN 1500 ELSE IF total <= 499 THEN 1300
                ELSE IF total <= 999 THEN 1100 ELSE 1000
            Lucky(current, total) ==
                /\ current \in {3, 7, 8, 9, 10, 12, 15, 23, 24, 30, 32, 33, 34, 45}
                /\ current <= total
            Expected(current, total) ==
                (Table(total) * (IF Lucky(current, total) THEN 12 ELSE 10)
                   * (IF current = 1 THEN 13 ELSE IF current = total THEN 11 ELSE 10))
                    \div 100
            scarcity == Factor(applied.out.breakdown, "scarcity")
        IN  /\ \A current \in SerialCurrents \cup SerialTotals, total \in SerialTotals :
                  card.serial_number = Some(Str(current) \o <<"/">> \o Str(total))
                      => scarcity = Expected(current, total)
            /\ IF Truthy(card.serial_number) /\ SerialMatch(card.serial_number.val).found
               THEN scarcity = Expected(SerialMatch(card.serial_number.val).current,
                                        SerialMatch(card.serial_number.val).total)
               ELSE scarcity = 1000

\* the serial "10/10": a print run of 10 (5.0), the lucky number 10 (times
\* 1.2) and the last copy (times 1.1)
C16_Witness ==
    /\ applied.called
    /\ card.serial_number = Some(<<"1", "0", "/", "1", "0">>)
    /\ applied.out.breakdown["scarcity"] = 6600
    /\ base_value > 0
    /\ applied.out.adjusted = Round(Frac(base_value * 66, 10))

\* the keys of PARALLEL_MULTIPLIERS in the order in which they are scanned
ParallelKeyOrder == <<
    <<"s", "u", "p", "e", "r", "f", "r", "a", "c", "t", "o", "r">>,
    <<"1", "/", "1">>,
    <<"g", "o", "l", "d">>,
    <<"o", "r", "a", "n", "g", "e">>,
    <<"b", "l", "a", "c", "k">>,
    <<"r", "e", "d">>,
    <<"b", "l", "u", "e">>,
    <<"p", "u", "r", "p", "l", "e">>,
    <<"g", "r", "e", "e", "n">>,
    <<"c", "r", "a", "c", "k", "e", "d", " ", "i", "c", "e">>,
    <<"s", "h", "i", "m", "m", "e", "r">>,
    <<"x", "f", "r", "a", "c", "t", "o", "r">>,
    <<"m", "o", "j", "o">>,
    <<"s", "i", "l", "v", "e", "r">>,
    <<"h", "o", "l", "o">>,
    <<"p", "r", "i", "z", "m">>,
    <<"r", "e", "f", "r", "a", "c", "t", "o", "r">>
>>

(* C17: for a non-empty parallel text the parallel factor is the multiplier *)
(* of the first key, in the order superfractor, 1/1, gold, orange, black,   *)
(* red, blue, purple, green, cracked ice, shimmer, xfractor, mojo, silver,  *)
(* holo, prizm, refractor, that occurs in the text as a case-insensitive    *)
(* substring; a non-empty text that matches no key gives 1.2; an empty or   *)
(* absent parallel gives 1.0.                                               *)
C17_ParallelOrderedScan ==
    applied.called =>
        LET parallel == Factor(applied.out.breakdown, "parallel")
            Occurs(i) == Contains(ParallelKeyOrder[i], Lower(card.parallel.val))
            First(i) == Occurs(i) /\ \A j \in 1..(i - 1) : ~Occurs(j)
            MultiplierOf(key) ==
                PARALLEL_MULTIPLIERS[CHOOSE k \in 1..Len(PARALLEL_MULTIPLIERS) :
                                        PARALLEL_MULTIPLIERS[k][1] = key][2]
        IN  /\ Len(PARALLEL_MULTIPLIERS) = Len(ParallelKeyOrder)
            /\ \A i \in 1..Len(ParallelKeyOrder) :
                  PARALLEL_MULTIPLIERS[i][1] = ParallelKeyOrder[i]
            /\ IF ~card.parallel.some \/ card.parallel.val = <<>>
               THEN parallel = 1000
               ELSE IF \E i \in 1..Len(ParallelKeyOrder) : Occurs(i)
               THEN \A i \in 1..Len(ParallelKeyOrder) :
                        First(i) => parallel = MultiplierOf(ParallelKeyOrder[i])
               ELSE parallel = 1200

\* "Holo Gold" matches holo (1.4) and gold (8.0); gold comes first in the
\* order of the keys and gives the factor
C17_Witness ==
    /\ applied.called
    /\ card.parallel = Some(txt_holo_gold)
    /\ applied.out.breakdown["parallel"] = 8000
    /\ base_value > 0
    /\ applied.out.adjusted = 8 * base_value

\* no current/total match in the serial number of the card
SerialUnparsed(c) == ~Truthy(c.serial_number) \/ ~SerialMatch(c.serial_number.val).found

\* a parallel text is set, and no key of PARALLEL_MULTIPLIERS occurs in it
ParallelUnmatched(c) ==
    /\ c.parallel.some
    /\ \A i \in 1..Len(PARALLEL_MULTIPLIERS) :
          ~Contains(PARALLEL_MULTIPLIERS[i][1], Lower(c.parallel.val))

-----------------------------------------------------------------------------
(* Scenario A: estimate_value on the "__main__" card without market data.   *)

\* the last call returned an estimate for the card of Scenario A from
\* use_mock = true and no market data
ScenarioA == Returned /\ card = CardA /\ ~market_data.some /\ use_mock

\* the estimate e was computed from generate(card), every ebay_sold point
\* carries the marker, and the multipliers were applied
OnSyntheticData(e) ==
    /\ e.data_points = generate(card, e.timestamp)
    /\ \A i \in 1..Len(e.data_points) :
          e.data_points[i].source = "ebay_sold" =>
              /\ e.data_points[i].url.some
              /\ Contains(txt_mock, e.data_points[i].url.val)
    /\ "note" \notin DOMAIN e.multipliers_applied
    /\ e.estimated_value = apply_all(weighted_value(e.data_points), card).adjusted

(* C20, as the claim states it: Scenario A uses synthetic data, the marker  *)
(* on its ebay_sold points, and applies the multipliers in full with the    *)
(* factors condition 1.5, rookie 1.5, autograph 2.5, scarcity 2.5 times the *)
(* lucky-number bonus 1.2 for 23, parallel 1.8, era 1.0 (modern) and sport  *)
(* 1.10; the recorded "_total" is 25.0 and the cap flags are set.           *)
C20_ScenarioAModernEra ==
    ScenarioA =>
        /\ OnSyntheticData(last)
        /\ DOMAIN last.multipliers_applied =
               {"condition", "rookie", "autograph", "scarcity", "parallel", "era",
                "sport_market", "_cap_applied", "_uncapped", "_total"}
        /\ last.multipliers_applied["condition"] = 1500
        /\ last.multipliers_applied["rookie"] = 1500
        /\ last.multipliers_applied["autograph"] = 2500
        /\ last.multipliers_applied["scarcity"] = (2500 * 12) \div 10
        /\ last.multipliers_applied["parallel"] = 1800
        /\ last.multipliers_applied["era"] = 1000
        /\ last.multipliers_applied["sport_market"] = 1100
        /\ last.multipliers_applied["_cap_applied"] = 25000
        /\ last.multipliers_applied["_total"] = 25000

(* C20, amended: Scenario A uses synthetic data, the marker on its          *)
(* ebay_sold points, and applies the multipliers in full with the factors   *)
(* condition 1.5, rookie 1.5, autograph 2.5, scarcity 4.2 (3.5 for a print  *)
(* run of 25, times the lucky-number bonus 1.2 for 23), parallel 1.8, era   *)
(* 1.2 (2017 is ultra-modern) and sport 1.10; the product 56.13 is recorded *)
(* under "_uncapped", "_cap_applied" is 25.0 and "_total" is 25.0.          *)
C20_ScenarioAUltraModernEra ==
    ScenarioA =>
        /\ OnSyntheticData(last)
        /\ DOMAIN last.multipliers_applied =
               {"condition", "rookie", "autograph", "scarcity", "parallel", "era",
                "sport_market", "_cap_applied", "_uncapped", "_total"}
        /\ last.multipliers_applied["condition"] = 1500
        /\ last.multipliers_applied["rookie"] = 1500
        /\ last.multipliers_applied["autograph"] = 2500
        /\ last.multipliers_applied["scarcity"] = (3500 * 12) \div 10
        /\ last.multipliers_applied["parallel"] = 1800
        /\ last.multipliers_applied["era"] = 1200
        /\ last.multipliers_applied["sport_market"] = 1100
        /\ last.multipliers_applied["_cap_applied"] = 25000
        /\ last.multipliers_applied["_uncapped"] = 56130
        /\ last.multipliers_applied["_total"] = 25000
        /\ last.estimated_value = Round(QMul(weighted_value(last.data_points), Frac(25, 1)))

\* Scenario A has run: nine synthetic points, the era factor 1.2, and an
\* estimate of 25 times the weighted value
C20_Witness ==
    /\ ScenarioA
    /\ Len(last.data_points) = 9
    /\ last.multipliers_applied["era"] = 1200
    /\ last.multipliers_applied["scarcity"] = 4200
    /\ last.multipliers_applied["_total"] = 25000
    /\ last.estimated_value > 0
    /\ last.estimated_value = Round(QMul(weighted_value(last.data_points), Frac(25, 1)))

-----------------------------------------------------------------------------
(* CardValueEstimator._weighted_value on its own: a caller collects market   *)
(* data points one by one and asks for the weighted value of the list.       *)

\* the largest number of points a caller adds to a list
MaxAggPoints == 2

\* "goldin" is not a key of SOURCE_WEIGHTS
AggSources == {"ebay_sold", "130point", "goldin"}

\* 7.00 and 15.00
AggValues == {700, 1500}

AggPoint(source, value) ==
    [source |-> source, value |-> value, date |-> 0, sample_size |-> 1,
     condition |-> "mint", url |-> None, notes |-> None]

\* nine comps of one source, so that a list reaches ten points and more
NineComps(source) == [i \in 1..9 |-> AggPoint(source, IF i % 2 = 0 THEN 700 ELSE 1500)]

\* the number of points added to the list the caller started from
Added(md) == IF Len(md) >= 9 THEN Len(md) - 9 ELSE Len(md)

InitAgg ==
    /\ now = 0
    /\ card = CardPlain
    /\ market_data \in {Some(<<>>), Some(NineComps("ebay_sold")), Some(NineComps("goldin"))}
    /\ use_mock = FALSE
    /\ base_value = 0
    /\ first = NoCall
    /\ last = NoCall
    /\ applied = NoCall
    /\ confidence = NoCall
    /\ InitOthers

AddPoint ==
    /\ Added(market_data.val) < MaxAggPoints
    /\ \E source \in AggSources, value \in AggValues :
           market_data' = Some(Append(market_data.val, AggPoint(source, value)))
    /\ UNCHANGED <<now, card, use_mock, base_value, first, last, applied, confidence, others>>

WeightedValue ==
    /\ weighted' = [called |-> TRUE, md |-> market_data.val,
                    out |-> weighted_dollars(market_data.val)]
    /\ UNCHANGED <<estimator_vars, value_vars, trends, validator_vars, limiter_vars, threads>>

NextAgg == AddPoint \/ WeightedValue

SpecAgg == InitAgg /\ [][NextAgg]_vars

\* a non-empty list whose points share one source
SingleSource(md) == md # <<>> /\ \A i \in 1..Len(md) : md[i].source = md[1].source

\* |p - q| <= q / 2^k
QNear(p, q, k) ==
    IF QLeq(q, p)
    THEN BigLeq(BigMul(BigSub(BigMul(p.n, q.d), BigMul(q.n, p.d)), Pow2(k)), BigMul(q.n, p.d))
    ELSE BigLeq(BigMul(BigSub(BigMul(q.n, p.d), BigMul(p.n, q.d)), Pow2(k)), BigMul(q.n, p.d))

(* C21: for a non-empty list whose points share one source, known or not,  *)
(* whatever the number of points, _weighted_value returns exactly           *)
(* statistics.median of the values, whatever the weight of the source and   *)
(* the count / 10 damping.                                                  *)
C21_SingleSourceIsMedian ==
    (weighted.called /\ SingleSource(weighted.md))
        => QEq(weighted.out, median(Values(weighted.md)))

(* C21, as the code has it: the result is (median * w) / w in floats, the   *)
(* median within a relative error of 2^-51.                                 *)
C21_SingleSourceNearMedian ==
    (weighted.called /\ SingleSource(weighted.md))
        => QNear(weighted.out, median(Values(weighted.md)), 51)

\* a list of ten points or more of one source whose weighted value is not the median
C21_Witness ==
    /\ weighted.called
    /\ SingleSource(weighted.md)
    /\ Len(weighted.md) >= 10
    /\ ~QEq(weighted.out, median(Values(weighted.md)))
    /\ QNear(weighted.out, median(Values(weighted.md)), 51)

\* the medians of the source groups of a list
PerSourceMedians(md) == {median(source_group(md, md[i].source)) : i \in 1..Len(md)}

\* the values of a list, as floats
FloatValues(md) == {Dollars(md[i].value) : i \in 1..Len(md)}

\* x lies between the smallest and the largest member of the set of floats
Between(x, floats) == (\E m \in floats : QLeq(m, x)) /\ (\E m \in floats : QLeq(x, m))

\* the same, but for one part in 2^k of the members
NearlyBetween(x, floats, k) ==
    /\ \E m \in floats : QLeq(QMul(m, [n |-> BigSub(Pow2(k), <<1>>), d |-> Pow2(k)]), x)
    /\ \E m \in floats : QLeq(x, QMul(m, [n |-> BigAdd(Pow2(k), <<1>>), d |-> Pow2(k)]))

\* the total weight of a list is above 0, so that _weighted_value does not fall
\* back on the plain mean
TotalWeightPositive(md) == total_weight(md, source_keys(md, {})).n # <<>>

(***************************************************************************)
(* C28, as stated: for any non-empty market data the total weight computed  *)
(* in _weighted_value is strictly positive, so the fallback to the plain    *)
(* mean is never taken, and the returned base value lies between the        *)
(* smallest and the largest per-source median, hence between the smallest   *)
(* and the largest data-point value.                                        *)
(***************************************************************************)
C28_BetweenMedians ==
    (weighted.called /\ weighted.md # <<>>)
        => /\ TotalWeightPositive(weighted.md)
           /\ Between(weighted.out, PerSourceMedians(weighted.md))
           /\ Between(weighted.out, FloatValues(weighted.md))

(***************************************************************************)
(* C28, amended: for any non-empty market data the total weight is strictly *)
(* positive and the fallback is never taken; the returned base value lies   *)
(* between the smallest and the largest per-source median but for one part  *)
(* in 2^51 of them, and, rounded to cents, between the smallest and the     *)
(* largest data-point value.                                                *)
(***************************************************************************)
C28_NearlyBetweenMedians ==
    (weighted.called /\ weighted.md # <<>>)
        => /\ TotalWeightPositive(weighted.md)
           /\ NearlyBetween(weighted.out, PerSourceMedians(weighted.md), 51)
           /\ \E cents \in {RoundCents(weighted.out)} :
                  /\ \E i \in 1..Len(weighted.md) : weighted.md[i].value <= cents
                  /\ \E i \in 1..Len(weighted.md) : cents <= weighted.md[i].value

\* two sources of different medians, one of them not listed in SOURCE_WEIGHTS,
\* and a weighted value strictly between the two
C28_Witness ==
    /\ weighted.called
    /\ Len(weighted.md) = 2
    /\ weighted.md[1].source = "goldin" /\ weighted.md[1].value = 700
    /\ weighted.md[2].source = "ebay_sold" /\ weighted.md[2].value = 1500
    /\ TotalWeightPositive(weighted.md)
    /\ QLt(Dollars(700), weighted.out)
    /\ QLt(weighted.out, Dollars(1500))

-----------------------------------------------------------------------------
(* CardValueEstimator._value_range on its own: for one value, a caller asks *)
(* for the range at one confidence score after another.                     *)

\* the distance between the scores tried, in tenths
ScoreStep == 100

\* the confidence scores, in tenths, of [0, 100]
RangeScores == {s \in 0..1000 : s % ScoreStep = 0} \cup {0, 450, 899, 900, 901, 1000}

\* the values, in cents
RangeValues == {0, 1, 10, 1999, 2000, 4999, 5000, 9999, 10000, 49999, 50000, 123456}

InitRange ==
    /\ now = 0
    /\ card = CardPlain
    /\ market_data = None
    /\ use_mock = FALSE
    /\ base_value = 0
    /\ first = NoCall
    /\ last = NoCall
    /\ applied = NoCall
    /\ confidence = NoCall
    /\ weighted = NoCall
    /\ adjusted_value \in RangeValues
    /\ ranged = NoCall
    /\ grading = NoCall
    /\ trends = NoCall
    /\ IdleValidator
    /\ IdleLimiter
    /\ IdleThreads

ValueRange ==
    /\ \E score \in RangeScores :
           ranged' = [called |-> TRUE, value |-> adjusted_value, score |-> score,
                      out |-> value_range(adjusted_value, score)]
    /\ UNCHANGED <<estimator_vars, weighted, adjusted_value, grading, trends, validator_vars,
                   limiter_vars, threads>>

NextRange == ValueRange

SpecRange == InitRange /\ [][NextRange]_vars

\* high - low of a returned range, in cents
Width(r) == r.out[2] - r.out[1]

\* max(0.05, 0.5 - score/200) in 1/2000, the score in tenths
HalfWidth(score) == IF 1000 - score > 100 THEN 1000 - score ELSE 100

\* x is the nearest cent to value * k / 2000 as far as floats can tell: within
\* half a cent and 1/2000 of a cent
NearestCent(x, val, k) == 2000 * x - 1001 <= val * k /\ val * k <= 2000 * x + 1001

\* the range r is the value less and plus the fraction HalfWidth of it
HalfWidthIs(r) ==
    /\ NearestCent(r.out[1], r.value, 2000 - HalfWidth(r.score))
    /\ NearestCent(r.out[2], r.value, 2000 + HalfWidth(r.score))
    /\ r.score = 0 => r.out = range_around(Dollars(r.value), Frac(1, 2))
    /\ r.score >= 900 => r.out = range_around(Dollars(r.value), Double(Frac(5, 100)))

(***************************************************************************)
(* C22: for a fixed value >= 0 the width high - low of _value_range does    *)
(* not grow when confidence_score grows over [0, 100]: the two bounds are   *)
(* the value less and plus the fraction max(0.05, 0.5 - score/200) of it,   *)
(* rounded to cents, which is 0.5 at score 0 and the floor 0.05 for every   *)
(* score >= 90.                                                             *)
(***************************************************************************)
C22_WidthNonIncreasing ==
    /\ [](ranged.called => HalfWidthIs(ranged))
    /\ [][(ranged.called /\ ranged'.called /\ ranged'.value = ranged.value
              /\ ranged'.score >= ranged.score)
             => Width(ranged') <= Width(ranged)]_vars

\* a range at a score above 90, as wide as the floor makes it: 10% of the value
C22_Witness ==
    /\ ranged.called
    /\ ranged.score > 900
    /\ ranged.value = 10000
    /\ ranged.out = <<9500, 10500>>

-----------------------------------------------------------------------------
(* CardValueEstimator._grading_recommendation on its own.                   *)

\* the distance between the values tried, in cents
ValueStep == 2500
\* the largest value tried, in cents
MaxValue == 60000

GradingValues ==
    {v \in 0..MaxValue : v % ValueStep = 0}
        \cup {1, 1999, 2000, 2001, 4999, 5000, 9999, 10000, 49999, 50000, 50001}

\* a card marked graded whose grade_value is not set
CardGradedNoValue == [CardGraded EXCEPT !.grade_value = NoneNum]
\* a card with a grade_value that is not marked graded
CardValueNotGraded == [CardPlain EXCEPT !.grade_value = Some(9000)]

GradingCards == {CardPlain, CardGraded, CardGradedNoValue, CardValueNotGraded}

InitGrading ==
    /\ now = 0
    /\ card \in GradingCards
    /\ market_data = None
    /\ use_mock = FALSE
    /\ base_value = 0
    /\ first = NoCall
    /\ last = NoCall
    /\ applied = NoCall
    /\ confidence = NoCall
    /\ weighted = NoCall
    /\ adjusted_value \in GradingValues
    /\ ranged = NoCall
    /\ grading = NoCall
    /\ trends = NoCall
    /\ IdleValidator
    /\ IdleLimiter
    /\ IdleThreads

GradingRecommendation ==
    /\ grading' = [called |-> TRUE, card |-> card, value |-> adjusted_value,
                   out |-> grading_recommendation(card, adjusted_value)]
    /\ UNCHANGED <<estimator_vars, weighted, adjusted_value, ranged, trends, validator_vars,
                   limiter_vars, threads>>

NextGrading == GradingRecommendation

SpecGrading == InitGrading /\ [][NextGrading]_vars

\* the bands of the ladder: [from, to) in cents, to = -1 for no upper end
GradingBands ==
    <<[from |-> 0, to |-> 2000, text |-> "Not worth grading unless gem mint condition"],
      [from |-> 2000, to |-> 5000, text |-> "Consider grading if confident in 9+ grade"],
      [from |-> 5000, to |-> 10000, text |-> "Grading recommended if NM+ or better"],
      [from |-> 10000, to |-> 50000, text |-> "Definitely grade if NM or better"],
      [from |-> 50000, to |-> -1, text |-> "High value - professional grading essential"]>>

\* the bands a value falls in
BandsOf(v) ==
    {b \in 1..Len(GradingBands) :
        GradingBands[b].from <= v /\ (GradingBands[b].to = -1 \/ v < GradingBands[b].to)}

(***************************************************************************)
(* C24: grading_recommendation is None exactly when card.graded is true,    *)
(* whether or not grade_value is set; otherwise the adjusted value v picks  *)
(* it by half-open bands: v < 20 not worth grading, 20 <= v < 50 consider   *)
(* grading, 50 <= v < 100 grading recommended, 100 <= v < 500 definitely    *)
(* grade, v >= 500 professional grading essential; every v >= 0 falls in    *)
(* exactly one band.                                                        *)
(***************************************************************************)
C24_GradingBands ==
    grading.called
        => /\ (grading.out = "None") <=> grading.card.graded
           /\ Cardinality(BandsOf(grading.value)) = 1
           /\ ~grading.card.graded
                 => \A b \in BandsOf(grading.value) : grading.out = GradingBands[b].text

\* a graded card without a grade_value got None, at a value on a band edge
C24_Witness ==
    /\ grading.called
    /\ grading.card = CardGradedNoValue
    /\ grading.value = 2000
    /\ grading.out = "None"

-----------------------------------------------------------------------------
(* CardValueEstimator._market_trends on its own: a caller collects market   *)
(* data points one by one and asks for the trends of the list.              *)

\* the most points added to a starting list
MaxTrendAdded == 3

TrendPoint(value, date) == [AggPoint("ebay_sold", value) EXCEPT !.date = date]

\* the points added: four late ones around 1.00 and an early one
TrendKinds ==
    {TrendPoint(110, 5), TrendPoint(130, 5), TrendPoint(90, 5), TrendPoint(80, 5),
     TrendPoint(100, 0)}

\* three points of 1.00
Older100 == [i \in 1..3 |-> TrendPoint(100, 1)]
\* three points of 10.00, then three of 11.00
Older1000 == [i \in 1..6 |-> TrendPoint(IF i <= 3 THEN 1000 ELSE 1100, i)]

TrendStarts == {<<>>, Older100, Older1000}

IsPrefix(a, b) == Len(a) <= Len(b) /\ SubSeq(b, 1, Len(a)) = a

\* the points added to the longest starting list md begins with
TrendAdded(md) ==
    Len(md) - Len(CHOOSE a \in TrendStarts :
                      /\ IsPrefix(a, md)
                      /\ \A b \in TrendStarts : IsPrefix(b, md) => Len(b) <= Len(a))

InitTrend ==
    /\ now = 0
    /\ card = CardPlain
    /\ market_data \in {Some(md) : md \in TrendStarts}
    /\ use_mock = FALSE
    /\ base_value = 0
    /\ first = NoCall
    /\ last = NoCall
    /\ applied = NoCall
    /\ confidence = NoCall
    /\ InitOthers

AddTrendPoint ==
    /\ TrendAdded(market_data.val) < MaxTrendAdded
    /\ \E point \in TrendKinds : market_data' = Some(Append(market_data.val, point))
    /\ UNCHANGED <<now, card, use_mock, base_value, first, last, applied, confidence, others>>

MarketTrends ==
    /\ trends' = [called |-> TRUE, md |-> market_data.val,
                  out |-> market_trends(market_data.val)]
    /\ UNCHANGED <<estimator_vars, weighted, value_vars, validator_vars, limiter_vars,
                   threads>>

NextTrend == AddTrendPoint \/ MarketTrends

SpecTrend == InitTrend /\ [][NextTrend]_vars

TrendDefault ==
       ("direction" :> "stable") @@ ("velocity" :> "normal")
    @@ ("30_day_change" :> 0) @@ ("90_day_change" :> 0)
    @@ ("volatility" :> "low") @@ ("recommendation" :> "hold")

RECURSIVE SumCents(_)
SumCents(vals) == IF vals = <<>> THEN 0 ELSE Head(vals) + SumCents(Tail(vals))

\* the sums, in cents, of the 3 earliest-dated and of the 3 latest-dated values
EarliestSum(md) == SumCents(Values(SubSeq(sorted_data(md), 1, 3)))
LatestSum(md) == SumCents(Values(SubSeq(sorted_data(md), Len(md) - 2, Len(md))))

\* pct as the fraction PctNum / PctDen (0 / 1 when the earliest mean is 0)
PctNum(md) == IF EarliestSum(md) = 0 THEN 0 ELSE (LatestSum(md) - EarliestSum(md)) * 100
PctDen(md) == IF EarliestSum(md) = 0 THEN 1 ELSE EarliestSum(md)

\* t tenths is num / den rounded to 1 decimal, a tie going either way
RoundsToTenths(t, num, den) ==
    2 * den * t - den <= 20 * num /\ 20 * num <= 2 * den * t + den

C29_ThreePointsStable ==
    trends.called
        => /\ Len(trends.md) = 3
                 => \A k \in DOMAIN TrendDefault \ {"volatility"} :
                        trends.out[k] = TrendDefault[k]
           /\ (3 <= Len(trends.md) /\ Len(trends.md) <= 5)
                 => recent_window(Len(trends.md)) \cap older_window(Len(trends.md)) # {}

\* three points of different values and dates, whose volatility is not the default
C29_Witness ==
    /\ trends.called
    /\ Len(trends.md) = 3
    /\ trends.md[1].value < trends.md[3].value
    /\ trends.md[1].date > trends.md[3].date
    /\ trends.out["volatility"] # "low"

-----------------------------------------------------------------------------
(* AccuracyValidator.  Prices are in cents and may be negative, error_pct   *)
(* and accuracy_pct are returned in hundredths of a percent, the figures of *)
(* a report in tenths of a percent.                                         *)

\* abs(estimate.estimated_value - actual_price), a float of dollars
abs_error(estimated, price) ==
    IF price < 0 THEN FAdd(Dollars(estimated), Dollars(0 - price))
    ELSE IF price <= estimated THEN FSub(Dollars(estimated), Dollars(price))
    ELSE FSub(Dollars(price), Dollars(estimated))

\* (error / actual_price * 100) if actual_price > 0 else 100
error_pct(error, price) ==
    IF price > 0 THEN FMul(FDiv(error, Dollars(price)), Frac(100, 1)) ELSE Frac(100, 1)

\* max(0, 100 - error_pct)
accuracy(pct) == IF QLt(pct, Frac(100, 1)) THEN FSub(Frac(100, 1), pct) ELSE Frac(0, 1)

\* a variant of in_range that leaves the two bounds out
in_range_exclusive(estimate, price) ==
    estimate.value_range[1] < price /\ price < estimate.value_range[2]

\* estimate.value_range[0] <= actual_price <= estimate.value_range[1]
in_range(estimate, price) ==
    estimate.value_range[1] <= price /\ price <= estimate.value_range[2]

\* the result dict of validate, from error and error_pct
validate_result(estimate, price, t, error, pct) ==
       ("estimated" :> estimate.estimated_value)
    @@ ("actual" :> price)
    @@ ("error" :> RoundCents(error))
    @@ ("error_pct" :> RoundCents(pct))
    @@ ("accuracy_pct" :> RoundCents(accuracy(pct)))
    @@ ("in_range" :> in_range(estimate, price))
    @@ ("confidence" :> estimate.confidence)
    @@ ("confidence_score" :> estimate.confidence_score)
    @@ ("timestamp" :> t)

validate_with(estimate, price, t, error) ==
    CHOOSE r \in {validate_result(estimate, price, t, error, pct) :
                      pct \in {error_pct(error, price)}} : TRUE

\* what validate(estimate, actual_price) returns at the clock reading t
validate(estimate, price, t) ==
    CHOOSE r \in {validate_with(estimate, price, t, error) :
                      error \in {abs_error(estimate.estimated_value, price)}} : TRUE

\* a variant of history_after that puts the result in front
history_prepended(h, result) == <<result>> \o h

\* self.history.append(result)
history_after(h, result) == Append(h, result)

\* [v["accuracy_pct"] for v in self.history]
accuracies(h) == [i \in 1..Len(h) |-> h[i]["accuracy_pct"]]

\* round((in_range / len(self.history)) * 100, 1)
in_range_pct(h) ==
    Round(QMul(FMul(Double(Frac(Cardinality({i \in 1..Len(h) : h[i]["in_range"]}), Len(h))),
                    Frac(100, 1)),
               Frac(10, 1)))

\* overall_accuracy()
overall_accuracy(h) ==
    IF h = <<>>
    THEN ("overall_accuracy" :> 0) @@ ("in_range_pct" :> 0) @@ ("total" :> 0)
    ELSE    ("overall_accuracy" :> Round(QMul(mean(accuracies(h)), Frac(10, 1))))
         @@ ("median_accuracy" :> Round(QMul(median(accuracies(h)), Frac(10, 1))))
         @@ ("in_range_pct" :> in_range_pct(h))
         @@ ("total" :> Len(h))

\* the fields of a ValueEstimate that validate reads
Estimated(v, low, high, level, score) ==
    [estimated_value |-> v, value_range |-> <<low, high>>, confidence |-> level,
     confidence_score |-> score]

\* the most validate calls on one AccuracyValidator
MaxValidations == 2

ValidatorEstimates ==
    {Estimated(100, 50, 150, "medium", 500), Estimated(749, 700, 800, "high", 800)}
ValidatorPrices == {0, 100, 150, 300}

\* the distance between the prices tried on a fresh AccuracyValidator, and the largest
PriceStep == 50
MaxPrice == 1000

ValidateEstimates ==
    ValidatorEstimates
        \cup {Estimated(0, 0, 0, "very_low", 150), Estimated(30000, 28500, 31500, "very_high", 950)}
ValidatePrices ==
    {p \in (0 - 100)..MaxPrice : p % PriceStep = 0}
        \cup {1, 99, 101, 151, 699, 701, 749, 799, 801, 1600, 28500, 31500, 31501}

InitValidator ==
    /\ now = 0
    /\ card = CardPlain
    /\ market_data = None
    /\ use_mock = FALSE
    /\ base_value = 0
    /\ first = NoCall
    /\ last = NoCall
    /\ applied = NoCall
    /\ confidence = NoCall
    /\ InitOthers

\* validate(estimate, actual_price), for at most `most` calls
ValidateFrom(estimates, prices, most) ==
    /\ Len(validations) < most
    /\ \E estimate \in estimates, price \in prices :
           \E result \in {validate(estimate, price, now)} :
               /\ history' = history_after(history, result)
               /\ validations' = Append(validations, [estimate |-> estimate,
                                                      actual_price |-> price,
                                                      out |-> result])
    /\ UNCHANGED <<estimator_vars, weighted, value_vars, trends, report, limiter_vars,
                   threads>>

Validate == ValidateFrom(ValidatorEstimates, ValidatorPrices, MaxValidations)

ValidateOnce == ValidateFrom(ValidateEstimates, ValidatePrices, 1)

OverallAccuracy ==
    /\ report' = [called |-> TRUE, calls |-> Len(validations),
                  out |-> overall_accuracy(history)]
    /\ UNCHANGED <<estimator_vars, weighted, value_vars, trends, history, validations,
                   limiter_vars, threads>>

NextValidator == Validate \/ OverallAccuracy

\* any sequence of validate and overall_accuracy calls on one AccuracyValidator
SpecValidator == InitValidator /\ [][NextValidator]_vars

NextValidate == ValidateOnce

\* one validate call on a fresh AccuracyValidator
SpecValidate == InitValidator /\ [][NextValidate]_vars

\* what the validate calls returned, in call order
Returned_validations == [i \in 1..Len(validations) |-> validations[i].out]

(***************************************************************************)
(* C25: after any sequence of validate and overall_accuracy calls on one    *)
(* AccuracyValidator, history holds exactly one entry per validate call, in *)
(* call order; validate only appends (what was recorded earlier is never    *)
(* changed or removed), overall_accuracy leaves history unchanged, and its  *)
(* report has total equal to the number of validate calls so far (the       *)
(* all-zero report with total 0 when there was none).                       *)
(***************************************************************************)
C25_HistoryAppendOnly ==
    /\ [](history = Returned_validations)
    /\ [][IsPrefix(history, history')]_vars
    /\ [][report' # report => history' = history]_vars
    /\ [](report.called
            => /\ report.out["total"] = report.calls
               /\ report.calls = 0
                     => report.out = ("overall_accuracy" :> 0) @@ ("in_range_pct" :> 0)
                                         @@ ("total" :> 0))

\* two validate calls with different results, then a report
C25_Witness ==
    /\ Len(history) = 2
    /\ history[1] # history[2]
    /\ report.called
    /\ report.calls = 2
    /\ report.out["total"] = 2

\* |a - b|
Dist(a, b) == IF a < b THEN b - a ELSE a - b

\* the error and the latest call's price and estimate, in cents
ErrorCents(v) == Dist(v.estimate.estimated_value, v.actual_price)

(***************************************************************************)
(* C26, as stated: validate returns error = |estimated_value -              *)
(* actual_price|, error_pct = error / actual_price x 100 when actual_price  *)
(* > 0 and 100 when actual_price <= 0, accuracy_pct = max(0, 100 -          *)
(* error_pct), which lies in [0, 100], and in_range true iff value_range    *)
(* low <= actual_price <= value_range high, both bounds included.           *)
(***************************************************************************)
C26_ValidateNumbers ==
    \A i \in 1..Len(validations) :
        LET v == validations[i]
        IN  /\ v.out["error"] = ErrorCents(v)
            /\ IF v.actual_price > 0
               THEN v.out["error_pct"] * v.actual_price = ErrorCents(v) * 10000
               ELSE v.out["error_pct"] = 10000
            /\ v.out["accuracy_pct"] =
                   (IF v.out["error_pct"] < 10000 THEN 10000 - v.out["error_pct"] ELSE 0)
            /\ 0 <= v.out["accuracy_pct"] /\ v.out["accuracy_pct"] <= 10000
            /\ v.out["in_range"] <=> (v.estimate.value_range[1] <= v.actual_price
                                      /\ v.actual_price <= v.estimate.value_range[2])

\* x hundredths is num / den percent rounded to 2 decimals, a tie going either way
RoundsToHundredths(x, num, den) ==
    2 * den * x - den <= 200 * num /\ 200 * num <= 2 * den * x + den

(***************************************************************************)
(* C26, amended: the returned error is |estimated_value - actual_price|;    *)
(* the returned error_pct is error / actual_price x 100 rounded to 2        *)
(* decimals when actual_price > 0, and 100 when actual_price <= 0; the      *)
(* returned accuracy_pct is max(0, 100 - error / actual_price x 100)        *)
(* rounded to 2 decimals, within [0, 100]; in_range is true iff value_range *)
(* low <= actual_price <= value_range high, both bounds included.           *)
(***************************************************************************)
C26_ValidateRoundedNumbers ==
    \A i \in 1..Len(validations) :
        LET v == validations[i]
            e == ErrorCents(v)
        IN  /\ v.out["error"] = e
            /\ IF v.actual_price > 0
               THEN /\ RoundsToHundredths(v.out["error_pct"], 100 * e, v.actual_price)
                    /\ IF e < v.actual_price
                       THEN RoundsToHundredths(v.out["accuracy_pct"],
                                               100 * (v.actual_price - e), v.actual_price)
                       ELSE v.out["accuracy_pct"] = 0
               ELSE v.out["error_pct"] = 10000 /\ v.out["accuracy_pct"] = 0
            /\ 0 <= v.out["accuracy_pct"] /\ v.out["accuracy_pct"] <= 10000
            /\ v.out["in_range"] <=> (v.estimate.value_range[1] <= v.actual_price
                                      /\ v.actual_price <= v.estimate.value_range[2])

\* an estimate of 7.49 against a price of 8.00, the upper bound of its range:
\* error_pct is 6.375, returned as 6.37, and accuracy_pct 93.625, returned as 93.62
C26_Witness ==
    /\ Len(validations) = 1
    /\ validations[1].estimate.estimated_value = 749
    /\ validations[1].actual_price = 800
    /\ validations[1].out["error"] = 51
    /\ validations[1].out["error_pct"] = 637
    /\ validations[1].out["accuracy_pct"] = 9362
    /\ validations[1].out["in_range"]

-----------------------------------------------------------------------------
(* RateLimiter (ebay_integration.py).  The clock time.time() is read in     *)
(* whole ticks and never goes back; the window is a whole number of ticks.  *)

\* a variant of active that keeps the timestamps at the cutoff as well
active_inclusive(timestamps, cutoff) ==
    SelectSeq(timestamps, LAMBDA t : t >= cutoff)

\* [t for t in self._timestamps if t > cutoff]
active(timestamps, cutoff) ==
    SelectSeq(timestamps, LAMBDA t : t > cutoff)

\* acquire() at the clock reading t: the limiter afterwards and the value returned
acquire_pruned(l, t, kept) ==
    IF Len(kept) >= l.max_calls
    THEN [limiter |-> [l EXCEPT !.timestamps = kept], out |-> FALSE]
    ELSE [limiter |-> [l EXCEPT !.timestamps = Append(kept, t)], out |-> TRUE]

acquire(l, t) == acquire_pruned(l, t, active(l.timestamps, t - l.window))

\* the remaining property at the clock reading t
remaining(l, t) ==
    LET in_window == Len(active(l.timestamps, t - l.window))
    IN  IF l.max_calls - in_window > 0 THEN l.max_calls - in_window ELSE 0

\* the largest max_calls, the longest window and the latest clock reading
MaxLimit == 2
MaxWindow == 2
MaxTime == 4

InitLimiter ==
    /\ now = 0
    /\ card = CardPlain
    /\ market_data = None
    /\ use_mock = FALSE
    /\ base_value = 0
    /\ first = NoCall
    /\ last = NoCall
    /\ applied = NoCall
    /\ confidence = NoCall
    /\ weighted = NoCall
    /\ IdleValue
    /\ trends = NoCall
    /\ IdleValidator
    /\ \E max_calls \in 0..MaxLimit, window \in 1..MaxWindow :
           limiter = [max_calls |-> max_calls, window |-> window, timestamps |-> <<>>]
    /\ clock = 0
    /\ grants = <<>>
    /\ acquired = NoCall
    /\ remaining_read = NoCall
    /\ IdleThreads

\* time passes
Advance ==
    /\ clock < MaxTime
    /\ clock' = clock + 1
    /\ UNCHANGED <<estimator_vars, weighted, value_vars, trends, validator_vars, limiter,
                   grants, acquired, remaining_read, threads>>

Acquire ==
    /\ \E r \in {acquire(limiter, clock)} :
           /\ limiter' = r.limiter
           /\ acquired' = [called |-> TRUE, at |-> clock, before |-> limiter.timestamps,
                           earlier |-> grants, out |-> r.out]
           /\ grants' = IF r.out THEN Append(grants, clock) ELSE grants
    /\ UNCHANGED <<estimator_vars, weighted, value_vars, trends, validator_vars, clock,
                   remaining_read, threads>>

Remaining ==
    /\ remaining_read' = [called |-> TRUE, at |-> clock, earlier |-> grants,
                          out |-> remaining(limiter, clock)]
    /\ UNCHANGED <<estimator_vars, weighted, value_vars, trends, validator_vars, limiter,
                   clock, grants, acquired, threads>>

NextLimiter == Advance \/ Acquire \/ Remaining

SpecLimiter == InitLimiter /\ [][NextLimiter]_vars

\* the number of the grants later than a and not later than b
GrantsIn(g, a, b) == Cardinality({i \in 1..Len(g) : a < g[i] /\ g[i] <= b})

\* the number of times t stands in the sequence q
Count(q, t) == Cardinality({i \in 1..Len(q) : q[i] = t})

(***************************************************************************)
(* C30: for a RateLimiter with max_calls = N and window W, under any        *)
(* sequence of acquire calls with a clock that never goes back: acquire     *)
(* returns True iff fewer than N earlier grants have a timestamp strictly   *)
(* later than now - W, so at most N grants fall in any window of length W   *)
(* (a window being, as the limiter's own, open at its start and closed at   *)
(* its end); a denied acquire records nothing; and remaining always equals  *)
(* max(0, N - number of grants still inside the window).                    *)
(***************************************************************************)
C30_AtMostNPerWindow ==
    /\ acquired.called
          => /\ acquired.out
                   <=> GrantsIn(acquired.earlier, acquired.at - limiter.window, acquired.at)
                           < limiter.max_calls
             /\ ~acquired.out
                   => /\ grants = acquired.earlier
                      /\ \A t \in 0..MaxTime :
                             Count(limiter.timestamps, t) <= Count(acquired.before, t)
    /\ \A a \in (0 - MaxWindow)..MaxTime :
           GrantsIn(grants, a, a + limiter.window) <= limiter.max_calls
    /\ remaining_read.called
          => \E inside \in {GrantsIn(remaining_read.earlier,
                                     remaining_read.at - limiter.window, remaining_read.at)} :
                 remaining_read.out = (IF limiter.max_calls - inside > 0
                                       THEN limiter.max_calls - inside ELSE 0)

\* a limiter of one call per window of two ticks that granted at 0, denied at 1
\* and granted again at 2, with nothing remaining
C30_Witness ==
    /\ limiter.max_calls = 1
    /\ limiter.window = 2
    /\ grants = <<0, 2>>
    /\ clock = 2
    /\ acquired.called /\ acquired.at = 2 /\ acquired.out
    /\ remaining_read.called /\ remaining_read.at = 2 /\ remaining_read.out = 0

-----------------------------------------------------------------------------
(* Concurrent estimate_value calls on one CardValueEstimator (app.py keeps  *)
(* a single estimator for all requests).  The calls share the card and the  *)
(* market_data list they were given; what a call binds on its way (its      *)
(* market_data when it generates one, base_value, adjusted_value, ...) is   *)
(* its own.  A call advances one statement of estimate_value at a time, and *)
(* reads the shared card and list again at every statement.  The clock      *)
(* stands still while the calls run.                                        *)

\* a variant of list_after_sorted in which the sort is done in place
list_sorted_in_place(md) == sorted_data(md)

\* sorted(market_data, key=...) builds a new list: the list passed is left as it was
list_after_sorted(md) == md

\* the number of concurrent calls
MaxThreads == 2

\* three points whose dates go down
ThreePoints ==
    <<[source |-> "ebay_sold", value |-> 700, date |-> -1, sample_size |-> 1,
       condition |-> "raw", url |-> Some(url_ebay_real), notes |-> None],
      [source |-> "130point", value |-> 600, date |-> -28, sample_size |-> 1,
       condition |-> "raw", url |-> Some(url_130point_mock), notes |-> None],
      [source |-> "ebay_sold", value |-> 500, date |-> -29, sample_size |-> 1,
       condition |-> "raw", url |-> None, notes |-> None]>>

ThreadCards == {CardA, CardGraded}
ThreadData == {None, Some(ThreePoints)}

InitThreads ==
    /\ now = 0
    /\ card \in ThreadCards
    /\ market_data \in ThreadData
    /\ use_mock \in BOOLEAN
    /\ base_value = 0
    /\ first = NoCall
    /\ last = NoCall
    /\ applied = NoCall
    /\ confidence = NoCall
    /\ weighted = NoCall
    /\ IdleValue
    /\ trends = NoCall
    /\ IdleValidator
    /\ IdleLimiter
    /\ threads = [i \in 1..MaxThreads |-> [pc |-> "idle"]]

\* the market_data a call works on: the shared list, or the list it generated
DataOf(th) == IF th.shared THEN market_data.val ELSE th.generated

\* the threads after thread i went to pc with the new bindings
Advanced(i, pc, bound) == [threads EXCEPT ![i] = bound @@ ("pc" :> pc) @@ threads[i]]

unshared == <<now, card, use_mock, base_value, first, last, applied, confidence, weighted,
              value_vars, trends, validator_vars, limiter_vars>>

\* the call is made; `alone` is what it returns when no other call runs
Call(i) ==
    /\ threads[i].pc = "idle"
    /\ threads' = Advanced(i, "data",
                            ("supplied" :> market_data)
                                @@ ("alone" :> estimate_value(card, market_data, use_mock, now)))
    /\ UNCHANGED <<market_data, unshared>>

\* if market_data is None: generate or raise
BindData(i) ==
    /\ threads[i].pc = "data"
    /\ threads' =
           IF market_data.some
           THEN Advanced(i, "weighted", ("shared" :> TRUE) @@ ("generated" :> <<>>))
           ELSE IF use_mock
           THEN Advanced(i, "weighted",
                         ("shared" :> FALSE) @@ ("generated" :> generate(card, now)))
           ELSE Advanced(i, "done",
                         "result" :> [called |-> TRUE, raised |-> TRUE, error |-> "ValueError"])
    /\ UNCHANGED <<market_data, unshared>>

\* base_value = self._weighted_value(market_data)
BindBase(i) ==
    /\ threads[i].pc = "weighted"
    /\ threads' = Advanced(i, "multipliers", "base" :> weighted_value(DataOf(threads[i])))
    /\ UNCHANGED <<market_data, unshared>>

\* has_real_data, adjusted_value, mult_breakdown
BindAdjusted(i) ==
    /\ threads[i].pc = "multipliers"
    /\ threads' = Advanced(i, "confidence",
                            "stage" :> multiplier_stage(has_real_data(DataOf(threads[i])),
                                                        threads[i].base, card))
    /\ UNCHANGED <<market_data, unshared>>

\* confidence, score, factors = ConfidenceCalculator.calculate(card, market_data)
BindConfidence(i) ==
    /\ threads[i].pc = "confidence"
    /\ threads' = Advanced(i, "range", "conf" :> calculate(card, DataOf(threads[i]), now))
    /\ UNCHANGED <<market_data, unshared>>

\* value_range = self._value_range(adjusted_value, score)
BindRange(i) ==
    /\ threads[i].pc = "range"
    /\ threads' = Advanced(i, "trends",
                            "value_range" :> value_range(threads[i].stage.adjusted,
                                                         threads[i].conf.score))
    /\ UNCHANGED <<market_data, unshared>>

\* trends = self._market_trends(market_data), which sorts a list of 3 points or more
BindTrends(i) ==
    /\ threads[i].pc = "trends"
    /\ threads' = Advanced(i, "grading", "trends" :> market_trends(DataOf(threads[i])))
    /\ market_data' = IF threads[i].shared /\ Len(market_data.val) >= 3
                       THEN Some(list_after_sorted(market_data.val))
                       ELSE market_data
    /\ UNCHANGED unshared

\* grading_rec = self._grading_recommendation(card, adjusted_value)
BindGrading(i) ==
    /\ threads[i].pc = "grading"
    /\ threads' = Advanced(i, "return",
                            "grading_rec" :> grading_recommendation(card,
                                                                   threads[i].stage.adjusted))
    /\ UNCHANGED <<market_data, unshared>>

\* return ValueEstimate(...)
Return(i) ==
    /\ threads[i].pc = "return"
    /\ threads' = Advanced(i, "done",
           "result" :> [called                 |-> TRUE,
                        raised                 |-> FALSE,
                        estimated_value        |-> threads[i].stage.adjusted,
                        confidence             |-> threads[i].conf.level,
                        confidence_score       |-> threads[i].conf.score,
                        value_range            |-> threads[i].value_range,
                        data_points            |-> DataOf(threads[i]),
                        market_trends          |-> threads[i].trends,
                        grading_recommendation |-> threads[i].grading_rec,
                        accuracy_factors       |-> threads[i].conf.factors,
                        multipliers_applied    |-> threads[i].stage.breakdown,
                        timestamp              |-> now])
    /\ UNCHANGED <<market_data, unshared>>

NextThreads ==
    \E i \in 1..MaxThreads :
        \/ Call(i)
        \/ BindData(i)
        \/ BindBase(i)
        \/ BindAdjusted(i)
        \/ BindConfidence(i)
        \/ BindRange(i)
        \/ BindTrends(i)
        \/ BindGrading(i)
        \/ Return(i)

SpecThreads == InitThreads /\ [][NextThreads]_vars

(***************************************************************************)
(* C27: estimate_value and the operations it calls keep no state and never  *)
(* modify the card or the supplied market_data list or its points, so in    *)
(* any interleaving of concurrent estimate_value calls on one shared        *)
(* CardValueEstimator each call returns what it returns running alone, and  *)
(* the returned data_points is the supplied list, with the same points in   *)
(* the same order.                                                          *)
(***************************************************************************)
C27_CallsDoNotInterfere ==
    /\ [][card' = card /\ market_data' = market_data]_vars
    /\ [](\A i \in 1..MaxThreads :
              threads[i].pc = "done"
                  => /\ threads[i].result = threads[i].alone
                     /\ (threads[i].supplied.some
                            => threads[i].result.data_points = threads[i].supplied.val))

\* every concurrent call on the same three points is over and returned them
C27_Witness ==
    /\ market_data = Some(ThreePoints)
    /\ \A i \in 1..MaxThreads :
           /\ threads[i].pc = "done"
           /\ threads[i].result.data_points = ThreePoints
           /\ threads[i].result.market_trends["volatility"] # "high"

====
